---- MODULE Spec2Model ----
(***************************************************************************)
(* Hotspot-question catalog over a Redis Stack store.                      *)
(*                                                                         *)
(* The store is one key space: JSON documents under group_id ++            *)
(* question_id, string keys with a TTL for the stats cache and the         *)
(* index-active marker, and the set of search indexes.  Every function of  *)
(* src/dbs/redis_stack/curd.py and every method of HotspotHandler is an    *)
(* operator from a store snapshot to a result; an action applies one of    *)
(* them atomically (sequential execution).  A store or provider call fails *)
(* when its call site is in the set F the action draws.                    *)
(*                                                                         *)
(* Keys, group ids, question ids and texts are sequences of tokens, so     *)
(* that concatenation, prefix matching and strip() are computed.           *)
(* Timestamps are integers (isoformat() is order preserving).  Distances   *)
(* are integers in units of 1e-5, similarity scores in units of 1e-4.      *)
(***************************************************************************)
EXTENDS Integers, Sequences, FiniteSets, TLC

VARIABLES json, owner, strs, index, now, ticks, ops, faulted, resp, calls

vars == <<json, owner, strs, index, now, ticks, ops, faulted, resp, calls>>

-----------------------------------------------------------------------------
(* Bounds of the model *)

\* documents stored at the same time
MaxDocs == 2
\* clock advances in one behaviour
MaxTicks == 1
\* operations in one behaviour that change the store
MaxOps == 3
\* operations in one behaviour during which a store or provider call fails
MaxFaults == 1
\* changes of the store when every operation of the catalog is explored at once
MaxCatalogOps == 2
\* texts in one call of embed_batch
MaxTexts == 3

(* Program constants *)

CACHE_TTL == 300
\* min_similarity = 0.5 of the handler, in units of 1e-4
HANDLER_MIN_SIMILARITY == 5000
\* request.limit or 3
DEFAULT_LIMIT == 3
\* updated_data["updated_at"] = "2025-01-01": a literal that sorts before
\* every datetime.now().isoformat() the program can produce
UPDATE_STAMP == 0

-----------------------------------------------------------------------------
(* Values *)

None == [kind |-> "None"]

\* None where a list is expected
NoneSeq == <<"None">>

DEFAULT_GROUP == <<"default">>

\* group ids are arbitrary caller strings: "default" is a prefix of "default" ++ "b"
Groups == {DEFAULT_GROUP, DEFAULT_GROUP \o <<"b">>}

QIds == {<<"c">>, <<"b", "c">>}

KeyOf(group_id, question_id) == group_id \o question_id

STATS_CACHE_KEY(group_id) == <<"hotspot:stats:">> \o group_id

INDEX_STATUS_KEY(group_id) == <<"hotspot:index_status:">> \o group_id

DocKeys == {KeyOf(g, q) : g \in Groups, q \in QIds}

StrKeys == {STATS_CACHE_KEY(g) : g \in Groups} \cup {INDEX_STATUS_KEY(g) : g \in Groups}

IsPrefix(p, s) == Len(p) <= Len(s) /\ SubSeq(s, 1, Len(p)) = p

Min(a, b) == IF a <= b THEN a ELSE b

Range(s) == {s[i] : i \in DOMAIN s}

\* texts: " " is a whitespace token
Texts == {<<"reset">>, <<" ", "email", " ">>, <<" ">>}

RECURSIVE LStrip(_)
LStrip(t) == IF t # <<>> /\ t[1] = " " THEN LStrip(Tail(t)) ELSE t

RECURSIVE RStrip(_)
RStrip(t) == IF t # <<>> /\ t[Len(t)] = " " THEN RStrip(SubSeq(t, 1, Len(t) - 1)) ELSE t

Strip(t) == RStrip(LStrip(t))

\* the request body of add_one without its question_id
Infos ==
  { [question |-> <<"reset">>, standard_reply |-> "r1", related_links |-> NoneSeq, category |-> "account"],
    [question |-> <<" ", "email", " ">>, standard_reply |-> "r2", related_links |-> <<"l1">>, category |-> "general"] }

QuestionInfo(q, info) ==
  [question_id |-> q, question |-> info.question, standard_reply |-> info.standard_reply,
   related_links |-> info.related_links, category |-> info.category]

Categories == {i.category : i \in Infos}

-----------------------------------------------------------------------------
(* Results of a call: the store after it, whether it raised, its value *)

Ret(s, v) == [st |-> s, exc |-> FALSE, ret |-> v]

Raise(s) == [st |-> s, exc |-> TRUE, ret |-> None]

\* "try: body except Exception: return default"
Catch(r, default) == IF r.exc THEN Ret(r.st, default) ELSE r

Site(name, i) == <<name, i>>

\* the store as an operation finds it; writes, embeds and posts record
\* what the operation issues
Store == [json |-> json, owner |-> owner, strs |-> strs, index |-> index,
          writes |-> {}, embeds |-> 0, posts |-> 0]

StoredKeys(s) == {k \in DocKeys : s.json[k] # None}


-----------------------------------------------------------------------------
(* EmbeddingService *)

ZeroVec == <<"zero">>

\* the provider's vector for a (stripped) text
ProviderVec(t) == <<"emb">> \o t

IsBlank(text) == text = <<>> \/ Strip(text) = <<>>

\* get_embeddings_batch that puts the provider's vectors at the first positions
get_embeddings_batch_packed(s, texts, F) ==
  LET original_indices == {i \in 1..Len(texts) : ~IsBlank(texts[i])}
      zeros == [i \in 1..Len(texts) |-> ZeroVec]
      s1 == [s EXCEPT !.embeds = @ + 1]
      s2 == [s1 EXCEPT !.posts = @ + 1]
      n == Cardinality(original_indices)
      got == IF Site("embed.short", 1) \in F THEN n - 1
             ELSE IF Site("embed.long", 1) \in F THEN n + 1 ELSE n
      nth(i) == CHOOSE j \in original_indices : Cardinality({k \in original_indices : k <= j}) = i
  IN IF original_indices = {} THEN Ret(s1, zeros)
     ELSE IF Site("embed.post", 1) \in F \/ got > n THEN Ret(s2, zeros)
     ELSE Ret(s2, [i \in 1..Len(texts) |->
                     IF i <= got THEN ProviderVec(Strip(texts[nth(i)])) ELSE ZeroVec])

\* get_embeddings_batch that asks the provider whatever the texts are
get_embeddings_batch_eager(s, texts, F) ==
  LET original_indices == {i \in 1..Len(texts) : ~IsBlank(texts[i])}
      zeros == [i \in 1..Len(texts) |-> ZeroVec]
      s2 == [s EXCEPT !.embeds = @ + 1, !.posts = @ + 1]
      n == Cardinality(original_indices)
      got == IF Site("embed.short", 1) \in F THEN n - 1
             ELSE IF Site("embed.long", 1) \in F THEN n + 1 ELSE n
      rank(i) == Cardinality({j \in original_indices : j <= i})
  IN IF Site("embed.post", 1) \in F \/ got > n THEN Ret(s2, zeros)
     ELSE Ret(s2, [i \in 1..Len(texts) |->
                     IF i \in original_indices /\ rank(i) <= got
                     THEN ProviderVec(Strip(texts[i])) ELSE ZeroVec])

get_embeddings_batch(s, texts, F) ==
  LET original_indices == {i \in 1..Len(texts) : ~IsBlank(texts[i])}
      zeros == [i \in 1..Len(texts) |-> ZeroVec]
      s1 == [s EXCEPT !.embeds = @ + 1]
      s2 == [s1 EXCEPT !.posts = @ + 1]
      n == Cardinality(original_indices)
      \* the provider answers with n vectors, or one fewer, or one more
      got == IF Site("embed.short", 1) \in F THEN n - 1
             ELSE IF Site("embed.long", 1) \in F THEN n + 1 ELSE n
      rank(i) == Cardinality({j \in original_indices : j <= i})
  IN IF original_indices = {} THEN Ret(s1, zeros)
     ELSE IF Site("embed.post", 1) \in F \/ got > n THEN Ret(s2, zeros)
     ELSE Ret(s2, [i \in 1..Len(texts) |->
                     IF i \in original_indices /\ rank(i) <= got
                     THEN ProviderVec(Strip(texts[i])) ELSE ZeroVec])

get_embedding(s, text, F) ==
  IF IsBlank(text) THEN Ret([s EXCEPT !.embeds = @ + 1], ZeroVec)
  ELSE LET r == get_embeddings_batch(s, <<text>>, F) IN Ret(r.st, r.ret[1])

\* HotspotHandler._get_text_embedding
GetTextEmbedding(s, text, F) == Catch(get_embedding(s, text, F), ZeroVec)

-----------------------------------------------------------------------------
(* curd.py: index management *)

ActiveMarker(t) == [val |-> "active", exp |-> t + CACHE_TTL]

\* what create_hotspot_index hands back: the store it leaves, its return value
\* and the index commands it sent, in order; its except clause turns every
\* failure into a False return, so it never raises
Created(s, cmds) == [st |-> s, exc |-> FALSE, ret |-> TRUE, cmds |-> cmds]

NotCreated(s, cmds) == [st |-> s, exc |-> FALSE, ret |-> FALSE, cmds |-> cmds]

\* create_hotspot_index whose drop also deletes the indexed documents (DD)
create_hotspot_index_dd(s, group_id, force_recreate, F, t) ==
  LET mk == INDEX_STATUS_KEY(group_id)
      swept == [k \in DocKeys |-> IF IsPrefix(group_id, k) THEN None ELSE s.json[k]]
      dropped == IF Site("ft.dropindex", 1) \notin F /\ group_id \in s.index
                 THEN [s EXCEPT !.index = @ \ {group_id}, !.json = swept,
                                !.owner = [k \in DocKeys |-> IF swept[k] = None THEN None ELSE @[k]]]
                 ELSE s
      created == [dropped EXCEPT !.index = @ \cup {group_id}]
  IN IF ~force_recreate /\ Site("marker.get", 1) \in F THEN NotCreated(s, <<>>)
     ELSE IF ~force_recreate /\ s.strs[mk] # None /\ s.strs[mk].val = "active"
       THEN Created(s, <<>>)
     ELSE IF Site("ft.create", 1) \in F \/ group_id \in dropped.index
       THEN NotCreated(dropped, <<"FT.DROPINDEX", "FT.CREATE">>)
     ELSE IF Site("marker.setex", 1) \in F
       THEN NotCreated(created, <<"FT.DROPINDEX", "FT.CREATE", "SETEX">>)
     ELSE Created([created EXCEPT !.strs[mk] = ActiveMarker(t)],
                  <<"FT.DROPINDEX", "FT.CREATE", "SETEX">>)

\* create_hotspot_index that does not look at the marker
create_hotspot_index_always(s, group_id, force_recreate, F, t) ==
  LET mk == INDEX_STATUS_KEY(group_id)
      dropped == IF Site("ft.dropindex", 1) \notin F /\ group_id \in s.index
                 THEN [s EXCEPT !.index = @ \ {group_id}] ELSE s
      created == [dropped EXCEPT !.index = @ \cup {group_id}]
  IN IF Site("ft.create", 1) \in F \/ group_id \in dropped.index
       THEN NotCreated(dropped, <<"FT.DROPINDEX", "FT.CREATE">>)
     ELSE IF Site("marker.setex", 1) \in F
       THEN NotCreated(created, <<"FT.DROPINDEX", "FT.CREATE", "SETEX">>)
     ELSE Created([created EXCEPT !.strs[mk] = ActiveMarker(t)],
                  <<"FT.DROPINDEX", "FT.CREATE", "SETEX">>)

\* create_hotspot_index that stores the marker before it creates the index
create_hotspot_index_marker_first(s, group_id, force_recreate, F, t) ==
  LET mk == INDEX_STATUS_KEY(group_id)
      dropped == IF Site("ft.dropindex", 1) \notin F /\ group_id \in s.index
                 THEN [s EXCEPT !.index = @ \ {group_id}] ELSE s
      marked == [dropped EXCEPT !.strs[mk] = ActiveMarker(t)]
      created == [marked EXCEPT !.index = @ \cup {group_id}]
  IN IF ~force_recreate /\ Site("marker.get", 1) \in F THEN NotCreated(s, <<>>)
     ELSE IF ~force_recreate /\ s.strs[mk] # None /\ s.strs[mk].val = "active"
       THEN Created(s, <<>>)
     ELSE IF Site("marker.setex", 1) \in F
       THEN NotCreated(dropped, <<"FT.DROPINDEX", "SETEX">>)
     ELSE IF Site("ft.create", 1) \in F \/ group_id \in dropped.index
       THEN NotCreated(marked, <<"FT.DROPINDEX", "SETEX", "FT.CREATE">>)
     ELSE Created(created, <<"FT.DROPINDEX", "SETEX", "FT.CREATE">>)

\* the marker is read unless force_recreate; a marker holding "active" ends
\* the call; otherwise FT.DROPINDEX (its failure is swallowed), FT.CREATE and
\* SETEX of the marker follow, and the first of the last two to fail ends the
\* call with False
create_hotspot_index(s, group_id, force_recreate, F, t) ==
  LET mk == INDEX_STATUS_KEY(group_id)
      dropped == IF Site("ft.dropindex", 1) \notin F /\ group_id \in s.index
                 THEN [s EXCEPT !.index = @ \ {group_id}] ELSE s
      created == [dropped EXCEPT !.index = @ \cup {group_id}]
  IN IF ~force_recreate /\ Site("marker.get", 1) \in F THEN NotCreated(s, <<>>)
     ELSE IF ~force_recreate /\ s.strs[mk] # None /\ s.strs[mk].val = "active"
       THEN Created(s, <<>>)
     ELSE IF Site("ft.create", 1) \in F \/ group_id \in dropped.index
       THEN NotCreated(dropped, <<"FT.DROPINDEX", "FT.CREATE">>)
     ELSE IF Site("marker.setex", 1) \in F
       THEN NotCreated(created, <<"FT.DROPINDEX", "FT.CREATE", "SETEX">>)
     ELSE Created([created EXCEPT !.strs[mk] = ActiveMarker(t)],
                  <<"FT.DROPINDEX", "FT.CREATE", "SETEX">>)

check_index_exists(s, group_id, F) ==
  Catch(IF Site("ft.info", 1) \in F THEN Raise(s) ELSE Ret(s, group_id \in s.index), FALSE)

-----------------------------------------------------------------------------
(* curd.py: point operations *)

required_keys == {"query_vector", "category", "question", "question_id"}

\* an item that is not a dict (a string, a list, None)
NotADict == [kind |-> "str"]

\* isinstance(data, dict)
IsDict(data) == data # NotADict

\* isinstance(data, dict) and required_keys.issubset(data.keys())
WellFormed(data) == IsDict(data) /\ required_keys \subseteq DOMAIN data

get_hotspot_question(s, group_id, question_id, F, i) ==
  LET key == KeyOf(group_id, question_id)
  IN Catch(IF Site("json.get", i) \in F THEN Raise(s) ELSE Ret(s, s.json[key]), None)

\* store_hotspot_question that asks for the question_id only
store_hotspot_question_lax(s, question_id, data, group_id, F, i) ==
  LET key == KeyOf(group_id, question_id)
      issued == [s EXCEPT !.writes = @ \cup {key}]
      body ==
        IF ~(IsDict(data) /\ "question_id" \in DOMAIN data) THEN Ret(s, FALSE)
        ELSE IF Site("json.set", i) \in F THEN Raise(issued)
        ELSE Ret([issued EXCEPT !.json[key] = data, !.owner[key] = group_id], TRUE)
  IN Catch(body, FALSE)

\* store_hotspot_question that keeps the standard_reply of a stored document
store_hotspot_question_merge(s, question_id, data, group_id, F, i) ==
  LET key == KeyOf(group_id, question_id)
      issued == [s EXCEPT !.writes = @ \cup {key}]
      merged == IF s.json[key] # None /\ "standard_reply" \in DOMAIN data
                THEN [data EXCEPT !.standard_reply = s.json[key].standard_reply] ELSE data
      body ==
        IF ~WellFormed(data) THEN Ret(s, FALSE)
        ELSE IF Site("json.set", i) \in F THEN Raise(issued)
        ELSE Ret([issued EXCEPT !.json[key] = merged, !.owner[key] = group_id], TRUE)
  IN Catch(body, FALSE)

store_hotspot_question(s, question_id, data, group_id, F, i) ==
  LET key == KeyOf(group_id, question_id)
      issued == [s EXCEPT !.writes = @ \cup {key}]
      body ==
        IF ~WellFormed(data) THEN Ret(s, FALSE)
        ELSE IF Site("json.set", i) \in F THEN Raise(issued)
        ELSE Ret([issued EXCEPT !.json[key] = data, !.owner[key] = group_id], TRUE)
  IN Catch(body, FALSE)

-----------------------------------------------------------------------------
(* curd.py: batch store *)

BatchResult(success_count, failed_items) ==
  [success_count |-> success_count, failed_count |-> Len(failed_items),
   failed_items |-> failed_items]

Digits == <<"0", "1", "2", "3">>

\* data.get("question_id", f"unknown_{i}") of a dict, for the 0-based index i
QuestionIdOr(data, i) ==
  IF "question_id" \in DOMAIN data THEN data.question_id ELSE <<"unknown_", Digits[i + 1]>>

FailedItem(i, data, reason) ==
  [index |-> i, question_id |-> QuestionIdOr(data, i), reason |-> reason]

\* the failure entries of the items at the positions in S, in input order
RECURSIVE FailuresAt(_, _, _, _)
FailuresAt(questions_data, S, reason, i) ==
  IF i > Len(questions_data) THEN <<>>
  ELSE (IF i \in S THEN <<FailedItem(i - 1, questions_data[i], reason)>> ELSE <<>>)
       \o FailuresAt(questions_data, S, reason, i + 1)

\* the loop of __fallback_store_individual from item i on; an item that is not
\* a dict raises in the try block and again in its except block
RECURSIVE FallbackEach(_, _, _, _, _)
FallbackEach(s, questions_data, group_id, F, i) ==
  IF i > Len(questions_data)
  THEN [st |-> s, exc |-> FALSE, success_count |-> 0, failed_items |-> <<>>]
  ELSE LET data == questions_data[i]
           keyed == IsDict(data) /\ "question_id" \in DOMAIN data
           r == IF keyed THEN store_hotspot_question(s, data.question_id, data, group_id, F, i)
                ELSE Ret(s, FALSE)
           rest == FallbackEach(r.st, questions_data, group_id, F, i + 1)
       IN IF ~IsDict(data)
          THEN [st |-> s, exc |-> TRUE, success_count |-> 0, failed_items |-> <<>>]
          ELSE [st |-> rest.st, exc |-> rest.exc,
                success_count |-> (IF r.ret THEN 1 ELSE 0) + rest.success_count,
                failed_items |->
                  (IF r.ret THEN <<>>
                   ELSE <<FailedItem(i - 1, data, IF keyed THEN "store failed" ELSE "KeyError")>>)
                  \o rest.failed_items]

\* __fallback_store_individual that passes over the items without the required keys
_fallback_store_individual_skip(s, questions_data, group_id, F) ==
  LET r == FallbackEach(s, questions_data, group_id, F, 1)
      keep(item) == WellFormed(questions_data[item.index + 1])
  IN IF r.exc THEN Raise(r.st)
     ELSE Ret(r.st, BatchResult(r.success_count, SelectSeq(r.failed_items, keep)))

_fallback_store_individual(s, questions_data, group_id, F) ==
  LET r == FallbackEach(s, questions_data, group_id, F, 1)
  IN IF r.exc THEN Raise(r.st) ELSE Ret(r.st, BatchResult(r.success_count, r.failed_items))

\* store_hotspot_questions_batch that writes nothing when an item is invalid
store_hotspot_questions_batch_strict(s, questions_data, group_id, F) ==
  LET n == Len(questions_data)
      valid_items == {i \in 1..n : WellFormed(questions_data[i])}
      accepted == {i \in valid_items : Site("json.set", i) \notin F}
      keyAt(i) == KeyOf(group_id, questions_data[i].question_id)
      last(k) == CHOOSE i \in accepted : keyAt(i) = k /\ \A j \in accepted : keyAt(j) = k => j <= i
      queued == [s EXCEPT !.writes = @ \cup {keyAt(i) : i \in valid_items}]
      applied == [queued EXCEPT
                    !.json = [k \in DocKeys |-> IF \E i \in accepted : keyAt(i) = k
                                                THEN questions_data[last(k)] ELSE @[k]],
                    !.owner = [k \in DocKeys |-> IF \E i \in accepted : keyAt(i) = k
                                                 THEN group_id ELSE @[k]]]
      invalid == FailuresAt(questions_data, (1..n) \ valid_items, "bad format", 1)
      refused == FailuresAt(questions_data, valid_items \ accepted, "store failed", 1)
  IN IF n = 0 THEN Ret(s, BatchResult(0, <<>>))
     ELSE IF \E i \in 1..n : ~IsDict(questions_data[i])
     THEN _fallback_store_individual(s, questions_data, group_id, F)
     ELSE IF valid_items # 1..n
     THEN Ret(s, BatchResult(0, invalid \o FailuresAt(questions_data, valid_items, "store failed", 1)))
     ELSE IF Site("pipe", 1) \in F THEN _fallback_store_individual(s, questions_data, group_id, F)
     ELSE IF Site("pipe.late", 1) \in F
     THEN _fallback_store_individual(applied, questions_data, group_id, F)
     ELSE Ret(applied, BatchResult(Cardinality(accepted), invalid \o refused))

\* The pipeline queues one JSON.SET per valid item and sends them in one round
\* trip. A round trip that fails raises before the store applied the writes
\* ("pipe") or after it did ("pipe.late"); the fallback then starts again from
\* the whole input. An item that is not a dict raises in the validation loop
\* (data.get), which also leads to the fallback.
store_hotspot_questions_batch(s, questions_data, group_id, F) ==
  LET n == Len(questions_data)
      valid_items == {i \in 1..n : WellFormed(questions_data[i])}
      accepted == {i \in valid_items : Site("json.set", i) \notin F}
      keyAt(i) == KeyOf(group_id, questions_data[i].question_id)
      last(k) == CHOOSE i \in accepted : keyAt(i) = k /\ \A j \in accepted : keyAt(j) = k => j <= i
      queued == [s EXCEPT !.writes = @ \cup {keyAt(i) : i \in valid_items}]
      applied == [queued EXCEPT
                    !.json = [k \in DocKeys |-> IF \E i \in accepted : keyAt(i) = k
                                                THEN questions_data[last(k)] ELSE @[k]],
                    !.owner = [k \in DocKeys |-> IF \E i \in accepted : keyAt(i) = k
                                                 THEN group_id ELSE @[k]]]
      invalid == FailuresAt(questions_data, (1..n) \ valid_items, "bad format", 1)
      refused == FailuresAt(questions_data, valid_items \ accepted, "store failed", 1)
  IN IF n = 0 THEN Ret(s, BatchResult(0, <<>>))
     ELSE IF \E i \in 1..n : ~IsDict(questions_data[i])
     THEN _fallback_store_individual(s, questions_data, group_id, F)
     ELSE IF valid_items = {} THEN Ret(s, BatchResult(0, invalid))
     ELSE IF Site("pipe", 1) \in F THEN _fallback_store_individual(s, questions_data, group_id, F)
     ELSE IF Site("pipe.late", 1) \in F
     THEN _fallback_store_individual(applied, questions_data, group_id, F)
     ELSE Ret(applied, BatchResult(Cardinality(accepted), invalid \o refused))

\* delete_hotspot_question that leaves the stats cache alone
delete_hotspot_question_keep_cache(s, group_id, question_id, F) ==
  LET key == KeyOf(group_id, question_id)
      result == IF s.json[key] # None THEN 1 ELSE 0
      deleted == [s EXCEPT !.json[key] = None, !.owner[key] = None]
      body ==
        IF Site("del", 1) \in F THEN Raise(s)
        ELSE IF result > 0 THEN Ret(deleted, TRUE)
        ELSE Ret(s, FALSE)
  IN Catch(body, FALSE)

delete_hotspot_question(s, group_id, question_id, F) ==
  LET key == KeyOf(group_id, question_id)
      cache_key == STATS_CACHE_KEY(group_id)
      result == IF s.json[key] # None THEN 1 ELSE 0
      deleted == [s EXCEPT !.json[key] = None, !.owner[key] = None]
      body ==
        IF Site("del", 1) \in F THEN Raise(s)
        ELSE IF result > 0
             THEN IF Site("cache.del", 1) \in F THEN Raise(deleted)
                  ELSE Ret([deleted EXCEPT !.strs[cache_key] = None], TRUE)
             ELSE Ret(s, FALSE)
  IN Catch(body, FALSE)

-----------------------------------------------------------------------------
(* The store's FT.SEARCH, as the code's commands ask for it *)

\* 1.0 in units of 1e-5
ONE == 100000

\* raw cosine distances a stored vector can have, in [0, 2]
Distances == {50004, 50006, 160000}

\* the documents an index with PREFIX 1 group_id covers
IndexedKeys(s, group_id) == {k \in StoredKeys(s) : IsPrefix(group_id, k)}

\* "@category:{c}": an exact match on the TAG field; "*": every document
Matching(s, group_id, category) ==
  {k \in IndexedKeys(s, group_id) : category = "" \/ s.json[k].category = category}

Injective(h) == \A i, j \in DOMAIN h : h[i] = h[j] => i = j

\* KNN limit ... SORTBY __vector_score: the limit nearest matches, nearest first
KnnHits(s, group_id, category, limit, dist) ==
  LET cands == Matching(s, group_id, category)
      n == Min(limit, Cardinality(cands))
  IN {h \in [1..n -> cands] :
        /\ Injective(h)
        /\ \A i, j \in 1..n : i < j => dist[h[i]] <= dist[h[j]]
        /\ \A c \in cands \ Range(h) : \A i \in 1..n : dist[h[i]] <= dist[c]}

\* the matches in some order, at most limit of them after skipping offset
PageHits(s, group_id, category, offset, limit) ==
  LET cands == Matching(s, group_id, category)
      n == Min(limit, IF Cardinality(cands) > offset THEN Cardinality(cands) - offset ELSE 0)
  IN {h \in [1..n -> cands] : Injective(h)}

RECURSIVE Flat(_, _)
Flat(doc, names) ==
  IF names = <<>> THEN <<>>
  ELSE (IF Head(names) \in DOMAIN doc THEN <<Head(names), doc[Head(names)]>> ELSE <<>>)
       \o Flat(doc, Tail(names))

\* the attributes of the index schema that RETURN names
ReturnFields == <<"question_id", "question", "category", "created_at", "updated_at">>

\* the reply [total, key, fields, key, fields, ...]
FtReply(s, hits, dist, scored) ==
  [p \in 1..(1 + 2 * Len(hits)) |->
     IF p = 1 THEN Len(hits)
     ELSE IF p % 2 = 0 THEN hits[p \div 2]
     ELSE LET k == hits[(p - 1) \div 2]
          IN Flat(s.json[k], ReturnFields)
             \o (IF scored THEN <<"__vector_score", dist[k]>> ELSE <<>>)]

\* the reply of RETURN 0: [total, key, key, ...]
FtReplyKeys(hits) == <<Len(hits)>> \o hits

-----------------------------------------------------------------------------
(* curd.py: reply parsing *)

\* round(x, 4) of a value in units of 1e-5, in units of 1e-4 (ties to even)
Round4(x) ==
  LET q == x \div 10
      r == x % 10
  IN IF r < 5 THEN q ELSE IF r > 5 THEN q + 1 ELSE IF q % 2 = 0 THEN q ELSE q + 1

FieldPositions(fields) == {m \in 1..Len(fields) : m % 2 = 1 /\ m + 1 <= Len(fields)}

FieldValue(fields, name) ==
  LET pos == {m \in FieldPositions(fields) : fields[m] = name}
  IN fields[(CHOOSE m \in pos : \A m2 \in pos : m2 <= m) + 1]

ParsedCount(result) == IF Len(result) < 2 THEN 0 ELSE (Len(result) - 1) \div 2

parse_search_result(result) ==
  [t \in 1..ParsedCount(result) |->
     LET key == result[2 * t]
         fields == result[2 * t + 1]
         names == {fields[m] : m \in FieldPositions(fields)}
     IN [nm \in {"key"} \cup names |-> IF nm \in names THEN FieldValue(fields, nm) ELSE key]]

\* parse_vector_search_result that reports the distance as the score
parse_vector_search_result_distance(result) ==
  [t \in 1..ParsedCount(result) |->
     LET key == result[2 * t]
         fields == result[2 * t + 1]
         names == {fields[m] : m \in FieldPositions(fields)}
         plain == names \ {"__vector_score"}
         scored == "__vector_score" \in names
     IN [nm \in {"key"} \cup plain \cup (IF scored THEN {"similarity_score"} ELSE {}) |->
           IF scored /\ nm = "similarity_score"
           THEN Round4(FieldValue(fields, "__vector_score"))
           ELSE IF nm \in plain THEN FieldValue(fields, nm) ELSE key]]

parse_vector_search_result(result) ==
  [t \in 1..ParsedCount(result) |->
     LET key == result[2 * t]
         fields == result[2 * t + 1]
         names == {fields[m] : m \in FieldPositions(fields)}
         plain == names \ {"__vector_score"}
         scored == "__vector_score" \in names
     IN [nm \in {"key"} \cup plain \cup (IF scored THEN {"similarity_score"} ELSE {}) |->
           IF scored /\ nm = "similarity_score"
           THEN Round4(ONE - FieldValue(fields, "__vector_score"))
           ELSE IF nm \in plain THEN FieldValue(fields, nm) ELSE key]]

\* r.get('similarity_score', 0)
ScoreOf(r) == IF "similarity_score" \in DOMAIN r THEN r["similarity_score"] ELSE 0

AtLeast(results, floor) ==
  LET keep(r) == ScoreOf(r) >= floor IN SelectSeq(results, keep)

-----------------------------------------------------------------------------
(* curd.py: search *)

\* limit 0 stands for None and 0: "KNN None" and "KNN 0" are rejected queries
vector_search_questions(s, group_id, limit, category, min_similarity, F, t, hits, dist, i) ==
  LET found == check_index_exists(s, group_id, F).ret
      s1 == IF ~found THEN create_hotspot_index(s, group_id, FALSE, F, t).st ELSE s
      body ==
        IF Site("ft.search", i) \in F \/ group_id \notin s1.index \/ limit < 1 THEN Raise(s1)
        ELSE LET parsed_results == parse_vector_search_result(FtReply(s1, hits, dist, TRUE))
             IN Ret(s1, IF min_similarity > 0 THEN AtLeast(parsed_results, min_similarity)
                        ELSE parsed_results)
  IN Catch(body, <<>>)

list_all_questions(s, group_id, limit, offset, F, hits) ==
  LET body ==
        IF group_id = <<>> THEN Ret(s, <<>>)
        ELSE IF Site("ft.search", 1) \in F \/ group_id \notin s.index THEN Raise(s)
        ELSE Ret(s, parse_search_result(FtReply(s, hits, [k \in {} |-> 0], FALSE)))
  IN Catch(body, <<>>)

delete_questions_by_category(s, group_id, category, F, hits) ==
  LET result == FtReplyKeys(hits)
      keys_to_delete == {result[p] : p \in {p \in 2..Len(result) : p % 2 = 0}}
      count == Cardinality({k \in keys_to_delete : s.json[k] # None})
      deleted == [s EXCEPT !.json = [k \in DocKeys |-> IF k \in keys_to_delete THEN None ELSE @[k]],
                           !.owner = [k \in DocKeys |-> IF k \in keys_to_delete THEN None ELSE @[k]]]
      body ==
        IF Site("ft.search", 1) \in F \/ group_id \notin s.index THEN Raise(s)
        ELSE IF Len(result) < 2 THEN Ret(s, 0)
        ELSE IF Site("pipe", 1) \in F THEN Raise(s)
        ELSE IF Site("cache.del", 1) \in F THEN Raise(deleted)
        ELSE Ret([deleted EXCEPT !.strs[STATS_CACHE_KEY(group_id)] = None], count)
  IN Catch(body, 0)

-----------------------------------------------------------------------------
(* curd.py: statistics *)

ErrorStats == [error |-> "error"]

\* KEYS group_id*: every key of the key space with this prefix
KeysMatching(s, group_id) ==
  {k \in StoredKeys(s) \cup {k \in StrKeys : s.strs[k] # None} : IsPrefix(group_id, k)}

\* result.get(path)[0] if result.get(path) else default
Projected(doc, field, default) == IF field \in DOMAIN doc THEN doc[field] ELSE default

MaxOf(S) == CHOOSE x \in S : \A y \in S : y <= x

\* the dict _calculate_stats builds from the keys it enumerated and the replies
\* of its pipeline, one JSON.GET per key: the reply for a key that is gone is
\* None, which "if result:" passes over; last_updated is <<>> for None and
\* <<stamp>> otherwise
StatsOf(keys, results, index_status, t) ==
  LET read == {k \in keys : results[k] # None}
      category(k) == Projected(results[k], "category", "uncategorized")
      stamps == {results[k].updated_at : k \in {k \in read : "updated_at" \in DOMAIN results[k]}}
  IN [total_questions |-> Cardinality(keys),
      categories |-> [c \in {category(k) : k \in read} |->
                        Cardinality({k \in read : category(k) = c})],
      index_status |-> index_status,
      last_updated |-> IF stamps = {} THEN <<>> ELSE <<MaxOf(stamps)>>,
      cache_time |-> t]

\* FT.INFO raises for an index that does not exist
IndexStatus(s, group_id, F) ==
  IF Site("ft.info", 1) \in F \/ group_id \notin s.index THEN "not_found" ELSE "active"

calculate_stats(s, group_id, F, t) ==
  LET keys == KeysMatching(s, group_id)
      body ==
        IF Site("keys", 1) \in F THEN Raise(s)
        \* JSON.GET on a string key is a WRONGTYPE error of the pipeline
        ELSE IF keys # {} /\ (Site("pipe", 1) \in F \/ keys \cap StrKeys # {}) THEN Raise(s)
        ELSE Ret(s, StatsOf(keys, [k \in keys |-> s.json[k]], IndexStatus(s, group_id, F), t))
  IN Catch(body, ErrorStats)

\* a cached payload that json.loads rejects with JSONDecodeError
Undecodable == [kind |-> "undecodable"]

\* get_stats that computes the statistics whatever the cache holds
get_stats_uncached(s, group_id, use_cache, F, t) ==
  LET cache_key == STATS_CACHE_KEY(group_id)
      stats == calculate_stats(s, group_id, F, t).ret
      body ==
        IF use_cache /\ Site("stats.get", 1) \in F THEN Raise(s)
        ELSE IF ~use_cache THEN Ret(s, stats)
        ELSE IF Site("stats.setex", 1) \in F THEN Raise(s)
        ELSE Ret([s EXCEPT !.strs[cache_key] = [val |-> stats, exp |-> t + CACHE_TTL]], stats)
  IN Catch(body, ErrorStats)

get_stats(s, group_id, use_cache, F, t) ==
  LET cache_key == STATS_CACHE_KEY(group_id)
      stats == calculate_stats(s, group_id, F, t).ret
      body ==
        IF use_cache /\ Site("stats.get", 1) \in F THEN Raise(s)
        ELSE IF use_cache /\ s.strs[cache_key] # None /\ s.strs[cache_key].val # Undecodable
          THEN Ret(s, s.strs[cache_key].val)
        ELSE IF ~use_cache THEN Ret(s, stats)
        ELSE IF Site("stats.setex", 1) \in F THEN Raise(s)
        ELSE Ret([s EXCEPT !.strs[cache_key] = [val |-> stats, exp |-> t + CACHE_TTL]], stats)
  IN Catch(body, ErrorStats)

-----------------------------------------------------------------------------
(* HotspotHandler: every method returns the store and an ApiResponse *)

ApiResponse(code, status, message, data) ==
  [code |-> code, status |-> status, message |-> message, data |-> data]

Done(s, env) == [st |-> s, exc |-> FALSE, env |-> env]

\* "except Exception as e: return ApiResponse(code=500, status='error', ...)"
Guarded(r, s, message) ==
  IF r.exc THEN Done(s, ApiResponse(500, "error", <<message>>, None)) ELSE r

\* a dict is true when it is not empty
Truthy(v) == v # None /\ DOMAIN v # {}

\* request.question_info.related_links or []
OrEmpty(links) == IF links = NoneSeq \/ links = <<>> THEN <<>> ELSE links

\* StoreData that files every document under the default category
StoreDataDefaultCategory(question_info, question_vector, current_time) ==
  [question_id |-> question_info.question_id,
   question |-> question_info.question,
   standard_reply |-> question_info.standard_reply,
   related_links |-> OrEmpty(question_info.related_links),
   category |-> "general",
   query_vector |-> question_vector,
   created_at |-> current_time,
   updated_at |-> current_time]

StoreData(question_info, question_vector, current_time) ==
  [question_id |-> question_info.question_id,
   question |-> question_info.question,
   standard_reply |-> question_info.standard_reply,
   related_links |-> OrEmpty(question_info.related_links),
   category |-> question_info.category,
   query_vector |-> question_vector,
   created_at |-> current_time,
   updated_at |-> current_time]

\* add_question without the lookup of the existing document
add_question_unchecked(s, group_id, question_info, F, t) ==
  LET qid == question_info.question_id
      r0 == create_hotspot_index(s, group_id, FALSE, F, t)
      r2 == GetTextEmbedding(r0.st, question_info.question, F)
      r3 == store_hotspot_question(r2.st, qid, StoreData(question_info, r2.ret, t), group_id, F, 1)
      body ==
        IF r3.ret
        THEN Done(r3.st, ApiResponse(200, "success", <<"added">>, [question_id |-> qid]))
        ELSE Done(r3.st, ApiResponse(500, "error", <<"store failed">>, None))
  IN Guarded(body, s, "add failed")

add_question(s, group_id, question_info, F, t) ==
  LET qid == question_info.question_id
      r0 == create_hotspot_index(s, group_id, FALSE, F, t)
      r1 == get_hotspot_question(r0.st, group_id, qid, F, 1)
      r2 == GetTextEmbedding(r1.st, question_info.question, F)
      r3 == store_hotspot_question(r2.st, qid, StoreData(question_info, r2.ret, t), group_id, F, 1)
      body ==
        IF Truthy(r1.ret)
        THEN Done(r1.st, ApiResponse(400, "error", <<"exists", qid>>, None))
        ELSE IF r3.ret
        THEN Done(r3.st, ApiResponse(200, "success", <<"added">>, [question_id |-> qid]))
        ELSE Done(r3.st, ApiResponse(500, "error", <<"store failed">>, None))
  IN Guarded(body, s, "add failed")

\* ExistingQuestions that stops at the first document found
RECURSIVE FirstExistingQuestion(_, _, _, _, _)
FirstExistingQuestion(s, group_id, items, F, i) ==
  IF i > Len(items) THEN <<>>
  ELSE IF Truthy(get_hotspot_question(s, group_id, items[i].question_id, F, i).ret)
       THEN <<items[i].question_id>>
       ELSE FirstExistingQuestion(s, group_id, items, F, i + 1)

\* the ids of the items whose lookup finds a document, in input order
RECURSIVE ExistingQuestions(_, _, _, _, _)
ExistingQuestions(s, group_id, items, F, i) ==
  IF i > Len(items) THEN <<>>
  ELSE (IF Truthy(get_hotspot_question(s, group_id, items[i].question_id, F, i).ret)
        THEN <<items[i].question_id>> ELSE <<>>)
       \o ExistingQuestions(s, group_id, items, F, i + 1)

\* the storing loop of add_questions_batch that stops at the first failed write
RECURSIVE StoreEachAbort(_, _, _, _, _, _, _)
StoreEachAbort(s, group_id, items, vectors, F, t, i) ==
  IF i > Len(items) THEN [st |-> s, success_count |-> 0, failed_items |-> <<>>]
  ELSE LET r == store_hotspot_question(s, items[i].question_id,
                                       StoreData(items[i], vectors[i], t), group_id, F, i)
           rest == StoreEachAbort(r.st, group_id, items, vectors, F, t, i + 1)
       IN IF r.ret
          THEN [st |-> rest.st, success_count |-> 1 + rest.success_count,
                failed_items |-> rest.failed_items]
          ELSE [st |-> r.st, success_count |-> 0,
                failed_items |-> <<[question_id |-> items[i].question_id, reason |-> "store failed"]>>]

\* the storing loop of add_questions_batch from item i on
RECURSIVE StoreEach(_, _, _, _, _, _, _)
StoreEach(s, group_id, items, vectors, F, t, i) ==
  IF i > Len(items) THEN [st |-> s, success_count |-> 0, failed_items |-> <<>>]
  ELSE LET r == store_hotspot_question(s, items[i].question_id,
                                       StoreData(items[i], vectors[i], t), group_id, F, i)
           rest == StoreEach(r.st, group_id, items, vectors, F, t, i + 1)
       IN [st |-> rest.st,
           success_count |-> (IF r.ret THEN 1 ELSE 0) + rest.success_count,
           failed_items |-> (IF r.ret THEN <<>>
                             ELSE <<[question_id |-> items[i].question_id, reason |-> "store failed"]>>)
                            \o rest.failed_items]

add_questions_batch(s, group_id, items, F, t) ==
  LET r0 == create_hotspot_index(s, group_id, FALSE, F, t)
      existing_questions == ExistingQuestions(r0.st, group_id, items, F, 1)
      r1 == get_embeddings_batch(r0.st, [i \in 1..Len(items) |-> items[i].question], F)
      r2 == StoreEach(r1.st, group_id, items, r1.ret, F, t, 1)
      body ==
        IF existing_questions # <<>>
        THEN Done(r0.st, ApiResponse(400, "error", <<"exist">> \o existing_questions, None))
        ELSE Done(r2.st, ApiResponse(200, "success", <<"batch added">>,
                   [success_count |-> r2.success_count,
                    failed_count |-> Len(r2.failed_items),
                    failed_items |-> r2.failed_items,
                    total_processed |-> Len(items)]))
  IN Guarded(body, s, "batch add failed")

Put(d, field, v) == [f \in DOMAIN d \cup {field} |-> IF f = field THEN v ELSE d[f]]

\* a field of the request that is not None
Given(request, field) == field \in DOMAIN request

\* update_question that empties the links a request does not mention
update_question_clear_links(s, request, F, t) ==
  LET qid == request.question_id
      r0 == get_hotspot_question(s, DEFAULT_GROUP, qid, F, 1)
      existing_data == r0.ret
      r1 == IF Given(request, "question") THEN GetTextEmbedding(r0.st, request.question, F)
            ELSE Ret(r0.st, None)
      d1 == IF Given(request, "question")
            THEN Put(Put(existing_data, "question", request.question), "query_vector", r1.ret)
            ELSE existing_data
      d2 == IF Given(request, "standard_reply") THEN Put(d1, "standard_reply", request.standard_reply) ELSE d1
      d3 == IF Given(request, "related_links") THEN Put(d2, "related_links", request.related_links)
            ELSE Put(d2, "related_links", <<>>)
      d4 == IF Given(request, "category") THEN Put(d3, "category", request.category) ELSE d3
      updated_data == Put(d4, "updated_at", UPDATE_STAMP)
      r2 == store_hotspot_question(r1.st, qid, updated_data, DEFAULT_GROUP, F, 1)
      body ==
        IF ~Truthy(existing_data)
        THEN Done(r0.st, ApiResponse(404, "error", <<"missing", qid>>, None))
        ELSE IF r2.ret
        THEN Done(r2.st, ApiResponse(200, "success", <<"updated">>, [question_id |-> qid]))
        ELSE Done(r2.st, ApiResponse(500, "error", <<"update failed">>, None))
  IN Guarded(body, s, "update failed")

\* update_question that looks the document up in the other group
update_question_other_group(s, request, F, t) ==
  LET qid == request.question_id
      group_id == DEFAULT_GROUP \o <<"b">>
      r0 == get_hotspot_question(s, group_id, qid, F, 1)
      existing_data == r0.ret
      updated_data == Put(existing_data, "updated_at", UPDATE_STAMP)
      r2 == store_hotspot_question(r0.st, qid, updated_data, group_id, F, 1)
      body ==
        IF ~Truthy(existing_data)
        THEN Done(r0.st, ApiResponse(404, "error", <<"missing", qid>>, None))
        ELSE IF r2.ret
        THEN Done(r2.st, ApiResponse(200, "success", <<"updated">>, [question_id |-> qid]))
        ELSE Done(r2.st, ApiResponse(500, "error", <<"update failed">>, None))
  IN Guarded(body, s, "update failed")

update_question(s, request, F, t) ==
  LET qid == request.question_id
      r0 == get_hotspot_question(s, DEFAULT_GROUP, qid, F, 1)
      existing_data == r0.ret
      r1 == IF Given(request, "question") THEN GetTextEmbedding(r0.st, request.question, F)
            ELSE Ret(r0.st, None)
      d1 == IF Given(request, "question")
            THEN Put(Put(existing_data, "question", request.question), "query_vector", r1.ret)
            ELSE existing_data
      d2 == IF Given(request, "standard_reply") THEN Put(d1, "standard_reply", request.standard_reply) ELSE d1
      d3 == IF Given(request, "related_links") THEN Put(d2, "related_links", request.related_links) ELSE d2
      d4 == IF Given(request, "category") THEN Put(d3, "category", request.category) ELSE d3
      updated_data == Put(d4, "updated_at", UPDATE_STAMP)
      r2 == store_hotspot_question(r1.st, qid, updated_data, DEFAULT_GROUP, F, 1)
      body ==
        IF ~Truthy(existing_data)
        THEN Done(r0.st, ApiResponse(404, "error", <<"missing", qid>>, None))
        ELSE IF r2.ret
        THEN Done(r2.st, ApiResponse(200, "success", <<"updated">>, [question_id |-> qid]))
        ELSE Done(r2.st, ApiResponse(500, "error", <<"update failed">>, None))
  IN Guarded(body, s, "update failed")

\* request.limit or 3
LimitOr3(limit) == IF limit = 0 THEN DEFAULT_LIMIT ELSE limit

\* query_questions that returns the search results as they are
query_questions_unfiltered(s, request, F, t, hits, dist) ==
  LET r0 == GetTextEmbedding(s, request.query, F)
      r1 == vector_search_questions(r0.st, request.group_id, LimitOr3(request.limit), "", 0,
                                    F, t, hits, dist, 1)
      search_results == r1.ret
  IN Guarded(Done(r1.st, ApiResponse(200, "success", <<"query ok">>,
               [query |-> request.query,
                results |-> search_results,
                total |-> Len(search_results),
                search_params |-> [min_similarity |-> HANDLER_MIN_SIMILARITY,
                                   original_count |-> Len(search_results)]])),
             s, "query failed")

query_questions(s, request, F, t, hits, dist) ==
  LET r0 == GetTextEmbedding(s, request.query, F)
      r1 == vector_search_questions(r0.st, request.group_id, LimitOr3(request.limit), "", 0,
                                    F, t, hits, dist, 1)
      search_results == r1.ret
      filtered_results == AtLeast(search_results, HANDLER_MIN_SIMILARITY)
  IN Guarded(Done(r1.st, ApiResponse(200, "success", <<"query ok">>,
               [query |-> request.query,
                results |-> filtered_results,
                total |-> Len(filtered_results),
                search_params |-> [min_similarity |-> HANDLER_MIN_SIMILARITY,
                                   original_count |-> Len(search_results)]])),
             s, "query failed")

\* the search loop of query_questions_batch from query i on
RECURSIVE SearchEach(_, _, _, _, _, _, _, _, _)
SearchEach(s, queries, group_id, limit, F, t, hits, dist, i) ==
  IF i > Len(queries) THEN [st |-> s, all_results |-> <<>>]
  ELSE LET r == vector_search_questions(s, group_id, limit, "", 0, F, t, hits[i], dist[i], i)
           filtered_results == AtLeast(r.ret, HANDLER_MIN_SIMILARITY)
           rest == SearchEach(r.st, queries, group_id, limit, F, t, hits, dist, i + 1)
       IN [st |-> rest.st,
           all_results |-> <<[query |-> queries[i],
                              query_index |-> i - 1,
                              results |-> filtered_results,
                              total |-> Len(filtered_results),
                              original_count |-> Len(r.ret)]>> \o rest.all_results]

query_questions_batch(s, queries, group_id, limit, F, t, hits, dist) ==
  LET r0 == get_embeddings_batch(s, queries, F)
      r1 == SearchEach(r0.st, queries, group_id, limit, F, t, hits, dist, 1)
      body ==
        IF queries = <<>>
        THEN Done(s, ApiResponse(400, "error", <<"empty queries">>, None))
        ELSE Done(r1.st, ApiResponse(200, "success", <<"batch query ok">>,
                   [queries |-> r1.all_results,
                    total_queries |-> Len(queries),
                    search_params |-> [min_similarity |-> HANDLER_MIN_SIMILARITY,
                                       limit_per_query |-> limit]]))
  IN Guarded(body, s, "batch query failed")

get_question_by_id(s, group_id, question_id, F) ==
  LET r == get_hotspot_question(s, group_id, question_id, F, 1)
      body ==
        IF Truthy(r.ret) THEN Done(r.st, ApiResponse(200, "success", <<"found">>, r.ret))
        ELSE Done(r.st, ApiResponse(404, "error", <<"missing", question_id>>, None))
  IN Guarded(body, s, "get failed")

list_questions(s, group_id, limit, F, hits) ==
  LET r == list_all_questions(s, group_id, limit, 0, F, hits)
  IN Guarded(Done(r.st, ApiResponse(200, "success", <<"listed">>,
               [questions |-> r.ret, total |-> Len(r.ret)])),
             s, "list failed")

\* delete_question that reports a missing document as a success with code 404
delete_question_lenient(s, group_id, question_id, F) ==
  LET r == delete_hotspot_question(s, group_id, question_id, F)
      body ==
        IF r.ret THEN Done(r.st, ApiResponse(200, "success", <<"deleted">>, None))
        ELSE Done(r.st, ApiResponse(404, "success", <<"missing or failed", question_id>>, None))
  IN Guarded(body, s, "delete failed")

delete_question(s, group_id, question_id, F) ==
  LET r == delete_hotspot_question(s, group_id, question_id, F)
      body ==
        IF r.ret THEN Done(r.st, ApiResponse(200, "success", <<"deleted">>, None))
        ELSE Done(r.st, ApiResponse(404, "error", <<"missing or failed", question_id>>, None))
  IN Guarded(body, s, "delete failed")

handler_get_stats(s, group_id, F, t) ==
  LET r == get_stats(s, group_id, TRUE, F, t)
  IN Guarded(Done(r.st, ApiResponse(200, "success", <<"stats">>, r.ret)), s, "stats failed")

-----------------------------------------------------------------------------
(* Inputs and faults *)

\* no call fails, one call site fails, or every call fails (the store is down)
Faults(sites) == {{}} \cup {{x} : x \in sites} \cup {sites}

IndexSites == {Site("marker.get", 1), Site("ft.dropindex", 1), Site("ft.create", 1),
               Site("marker.setex", 1)}

EmbedSites == {Site("embed.post", 1), Site("embed.short", 1), Site("embed.long", 1)}

SearchSites(n) == {Site("ft.info", 1)} \cup IndexSites \cup {Site("ft.search", i) : i \in 1..n}

ItemSites(n) == {Site("json.get", i) : i \in 1..n} \cup {Site("json.set", i) : i \in 1..n}

\* the items of a batch request
BatchInfos == {i \in Infos : i.standard_reply = "r1"}

BatchItems == {QuestionInfo(q, i) : q \in QIds, i \in BatchInfos}

Batches == {<<>>} \cup {<<x>> : x \in BatchItems} \cup {<<x, y>> : x \in BatchItems, y \in BatchItems}

\* a document as a caller of the adapter builds it
DocOf(q) == StoreData(QuestionInfo(q, CHOOSE i \in BatchInfos : TRUE), ZeroVec, 1)

Without(d, field) == [f \in DOMAIN d \ {field} |-> d[f]]

\* the items given to upsert_one and upsert_batch: valid documents, documents
\* without one of the required keys, and an item that is not a dict
DataItems ==
  {DocOf(q) : q \in QIds}
    \cup {Without(DocOf(q), f) : q \in QIds, f \in required_keys}
    \cup {NotADict}

DataLists == {<<>>} \cup {<<x>> : x \in DataItems} \cup {<<x, y>> : x \in DataItems, y \in DataItems}

BatchSites(n) == {Site("pipe", 1), Site("pipe.late", 1)} \cup {Site("json.set", i) : i \in 1..n}

\* partial update requests: the fields that are not None
Updates(q) ==
  { [question_id |-> q, question |-> <<"reset">>],
    [question_id |-> q, standard_reply |-> "r2", category |-> "general"],
    [question_id |-> q, related_links |-> <<"l2">>] }

QueryTexts == {<<"reset">>, <<" ">>}

QueryLists == {<<>>, <<<<"reset">>>>, <<<<"reset">>, <<" ">>>>, <<<<" ">>, <<"reset">>>>}

\* the inputs of embed_batch
TextLists == UNION {[1..n -> Texts] : n \in 0..MaxTexts}

\* 0 stands for a limit of 0 and for a missing one (None): "request.limit or 3"
\* and the KNN clause treat the two alike
Limits == {0, 1, 2}

\* min_similarity in units of 1e-4
MinSimilarities == {0 - 5000, 0, 5000}

\* distances on both sides of the handler's floor of 0.5, for the handler's queries
FloorDistances == {50004, 50006}

-----------------------------------------------------------------------------
(* State machine *)

HandlerOps == {"add_one", "add_batch", "update_one", "query_one", "query_batch",
               "get_one", "list", "delete_one", "stats"}

Response(op, req, env, ret, s, F) ==
  [op |-> op, req |-> req, env |-> env, ret |-> ret,
   writes |-> s.writes, embeds |-> s.embeds, posts |-> s.posts,
   healthy |-> F = {}]

NoResponse ==
  [op |-> "none", req |-> None, env |-> None, ret |-> None,
   writes |-> {}, embeds |-> 0, posts |-> 0, healthy |-> TRUE]

\* requests are served one at a time: none is accepted while a response is
\* on its way back to the caller
Idle == resp.op = "none"

Changed(s) == s.json # json \/ s.strs # strs \/ s.index # index

\* the faults an operation may meet: none once MaxFaults operations met one
FaultsOf(sites) == IF faulted < MaxFaults THEN Faults(sites) ELSE {{}}

Commit(s, response) ==
  /\ Cardinality(StoredKeys(s)) <= MaxDocs
  /\ Changed(s) => ops < MaxOps
  /\ json' = s.json
  /\ owner' = s.owner
  /\ strs' = s.strs
  /\ index' = s.index
  /\ ops' = IF Changed(s) THEN ops + 1 ELSE ops
  /\ faulted' = IF response.healthy THEN faulted ELSE faulted + 1
  /\ resp' = response
  /\ UNCHANGED <<now, ticks, calls>>

\* the add_one requests that are served concurrently
Callers == {1, 2}

\* a caller that has not sent its request
NoCall ==
  [pc |-> "idle", group_id |-> None, question_info |-> None, store_data |-> None,
   env |-> None, wrote |-> 0]

Init ==
  /\ calls = [p \in Callers |-> NoCall]
  /\ json = [k \in DocKeys |-> None]
  /\ owner = [k \in DocKeys |-> None]
  /\ strs = [k \in StrKeys |-> None]
  /\ index = {}
  /\ now = 1
  /\ ticks = 0
  /\ ops = 0
  /\ faulted = 0
  /\ resp = NoResponse

AddOne ==
  /\ Idle
  /\ \E g \in Groups, q \in QIds, info \in Infos :
    \E F \in FaultsOf(IndexSites \cup ItemSites(1) \cup EmbedSites) :
      LET r == add_question(Store, g, QuestionInfo(q, info), F, now)
      IN Commit(r.st, Response("add_one", [group_id |-> g, question_info |-> QuestionInfo(q, info)],
                               r.env, None, r.st, F))

AddBatch ==
  /\ Idle
  /\ \E g \in Groups, items \in Batches :
    \E F \in FaultsOf(IndexSites \cup ItemSites(Len(items)) \cup EmbedSites) :
      LET r == add_questions_batch(Store, g, items, F, now)
      IN Commit(r.st, Response("add_batch",
                               [group_id |-> g, question_info_list |-> items, faults |-> F],
                               r.env, None, r.st, F))

UpdateOne ==
  /\ Idle
  /\ \E q \in QIds :
    \E request \in Updates(q), F \in FaultsOf(ItemSites(1) \cup EmbedSites) :
      LET r == update_question(Store, request, F, now)
      IN Commit(r.st, Response("update_one", request, r.env, None, r.st, F))

QueryOne ==
  /\ Idle
  /\ \E g \in Groups, query \in QueryTexts, limit \in Limits :
    \E F \in FaultsOf(EmbedSites \cup SearchSites(1)),
       dist \in [IndexedKeys(Store, g) -> FloorDistances] :
      \E hits \in KnnHits(Store, g, "", LimitOr3(limit), dist) :
        LET request == [query |-> query, limit |-> limit, group_id |-> g]
            r == query_questions(Store, request, F, now, hits, dist)
        IN Commit(r.st, Response("query_one", request, r.env, None, r.st, F))

QueryBatch ==
  /\ Idle
  /\ \E g \in Groups, queries \in QueryLists, limit \in {0, 2} :
       \E F \in FaultsOf(EmbedSites \cup SearchSites(Len(queries))),
          dist \in [1..Len(queries) -> [IndexedKeys(Store, g) -> FloorDistances]] :
         LET hits == [i \in 1..Len(queries) |-> CHOOSE h \in KnnHits(Store, g, "", limit, dist[i]) : TRUE]
             r == query_questions_batch(Store, queries, g, limit, F, now, hits, dist)
         IN Commit(r.st, Response("query_batch",
                                  [queries |-> queries, group_id |-> g, limit |-> limit,
                                   faults |-> F],
                                  r.env, None, r.st, F))

GetOne ==
  /\ Idle
  /\ \E g \in Groups, q \in QIds :
    \E F \in FaultsOf(ItemSites(1) \ {Site("json.set", 1)}) :
      LET r == get_question_by_id(Store, g, q, F)
      IN Commit(r.st, Response("get_one", [group_id |-> g, question_id |-> q],
                               r.env, None, r.st, F))

List ==
  /\ Idle
  /\ \E g \in Groups, limit \in {1, 2} :
    \E F \in FaultsOf({Site("ft.search", 1)}) :
      \E hits \in PageHits(Store, g, "", 0, limit) :
        LET r == list_questions(Store, g, limit, F, hits)
        IN Commit(r.st, Response("list", [group_id |-> g, limit |-> limit],
                                 r.env, None, r.st, F))

DeleteOne ==
  /\ Idle
  /\ \E g \in Groups, q \in QIds :
    \E F \in FaultsOf({Site("del", 1), Site("cache.del", 1)}) :
      LET r == delete_question(Store, g, q, F)
      IN Commit(r.st, Response("delete_one", [group_id |-> g, question_id |-> q],
                               r.env, None, r.st, F))

Stats ==
  /\ Idle
  /\ \E g \in Groups :
    \E F \in FaultsOf({Site("stats.get", 1), Site("ft.info", 1), Site("keys", 1),
                     Site("pipe", 1), Site("stats.setex", 1)}) :
      LET r == handler_get_stats(Store, g, F, now)
      IN Commit(r.st, Response("stats",
                               [group_id |-> g, cached |-> strs[STATS_CACHE_KEY(g)] # None,
                                faults |-> F],
                               r.env, None, r.st, F))

\* the embedding service, as every caller reaches it
EmbedBatch ==
  /\ Idle
  /\ \E texts \in TextLists :
    \E F \in FaultsOf(EmbedSites) :
      LET r == get_embeddings_batch(Store, texts, F)
      IN Commit(r.st, Response("embed_batch", [texts |-> texts, provider |-> F],
                               None, r.ret, r.st, F))

\* the adapter's operations, as the admin route and other callers reach them
CreateIndex ==
  /\ Idle
  /\ \E g \in Groups, force_recreate \in BOOLEAN :
    \E F \in FaultsOf(IndexSites) :
      LET r == create_hotspot_index(Store, g, force_recreate, F, now)
      IN Commit(r.st, Response("ensure_index",
                               [group_id |-> g, force_recreate |-> force_recreate, faults |-> F],
                               None, [value |-> r.ret, cmds |-> r.cmds], r.st, F))

VectorSearch ==
  /\ Idle
  /\ \E g \in Groups, limit \in {1, 2}, category \in {"", "account"},
     min_similarity \in MinSimilarities :
    \E F \in FaultsOf(SearchSites(1)), dist \in [IndexedKeys(Store, g) -> Distances] :
      \E hits \in KnnHits(Store, g, category, limit, dist) :
        LET r == vector_search_questions(Store, g, limit, category, min_similarity,
                                         F, now, hits, dist, 1)
        IN Commit(r.st, Response("vector_search",
                                 [group_id |-> g, limit |-> limit, category |-> category,
                                  min_similarity |-> min_similarity],
                                 None, r.ret, r.st, F))

StoreOne ==
  /\ Idle
  /\ \E g \in Groups, q \in QIds, data \in DataItems :
    \E F \in FaultsOf({Site("json.set", 1)}) :
      LET r == store_hotspot_question(Store, q, data, g, F, 1)
      IN Commit(r.st, Response("upsert_one",
                               [question_id |-> q, data |-> data, group_id |-> g, faults |-> F],
                               None, [raised |-> r.exc, value |-> r.ret], r.st, F))

\* any of the calls of the batch may fail, together with the round trip
StoreBatch ==
  /\ Idle
  /\ \E g \in Groups, questions_data \in DataLists :
    \E F \in (IF faulted < MaxFaults THEN SUBSET BatchSites(Len(questions_data)) ELSE {{}}) :
      LET r == store_hotspot_questions_batch(Store, questions_data, g, F)
      IN Commit(r.st, Response("upsert_batch",
                               [questions_data |-> questions_data, group_id |-> g, faults |-> F],
                               None, [raised |-> r.exc, value |-> r.ret], r.st, F))

DeleteByCategory ==
  /\ Idle
  /\ \E g \in Groups, category \in Categories :
    \E F \in FaultsOf({Site("ft.search", 1), Site("pipe", 1), Site("cache.del", 1)}) :
      \E hits \in PageHits(Store, g, category, 0, Cardinality(DocKeys)) :
        LET r == delete_questions_by_category(Store, g, category, F, hits)
        IN Commit(r.st, Response("delete_by_category",
                                 [group_id |-> g, category |-> category,
                                  matching |-> Cardinality(Matching(Store, g, category))],
                                 None, r.ret, r.st, F))

\* another client of the store overwrites a cached stats payload with bytes
\* that are no JSON document; the key keeps its TTL
Corrupt ==
  /\ Idle
  /\ \E g \in Groups :
       /\ strs[STATS_CACHE_KEY(g)] # None
       /\ strs[STATS_CACHE_KEY(g)].val # Undecodable
       /\ strs' = [strs EXCEPT ![STATS_CACHE_KEY(g)].val = Undecodable]
  /\ UNCHANGED <<json, owner, index, now, ticks, ops, faulted, resp, calls>>

\* time passes; a key set with a TTL is gone once its time is reached
Tick ==
  \E d \in {1, CACHE_TTL} :
    /\ Idle
    /\ ticks < MaxTicks
    /\ now' = now + d
    /\ ticks' = ticks + 1
    /\ strs' = [k \in StrKeys |-> IF strs[k] # None /\ strs[k].exp <= now + d THEN None ELSE strs[k]]
    /\ UNCHANGED <<json, owner, index, ops, faulted, resp, calls>>

\* the caller receives the response
Return ==
  /\ ~Idle
  /\ resp' = NoResponse
  /\ UNCHANGED <<json, owner, strs, index, now, ticks, ops, faulted, calls>>

Next ==
  \/ AddOne
  \/ AddBatch
  \/ UpdateOne
  \/ QueryOne
  \/ QueryBatch
  \/ GetOne
  \/ List
  \/ DeleteOne
  \/ Stats
  \/ EmbedBatch
  \/ CreateIndex
  \/ VectorSearch
  \/ DeleteByCategory
  \/ StoreOne
  \/ StoreBatch
  \/ Corrupt
  \/ Tick
  \/ Return

Spec == Init /\ [][Next]_vars

(* The machine restricted to the operations a property is about *)

\* writing and reading documents
NextWrite == AddOne \/ AddBatch \/ GetOne \/ DeleteOne \/ Return

SpecWrite == Init /\ [][NextWrite]_vars

\* documents and the statistics cache
NextStats == AddOne \/ AddBatch \/ DeleteOne \/ DeleteByCategory \/ Stats \/ Return

SpecStats == Init /\ [][NextStats]_vars

\* the statistics cache as documents come and go and time passes
NextCache == AddOne \/ DeleteOne \/ Stats \/ Corrupt \/ Tick \/ Return

SpecCache == Init /\ [][NextCache]_vars

\* documents and the vector search
NextSearch == AddOne \/ VectorSearch \/ Return

SpecSearch == Init /\ [][NextSearch]_vars

\* the vector search and the requests that create and recreate the index
NextSearchIndex == AddOne \/ CreateIndex \/ VectorSearch \/ Return

SpecSearchIndex == Init /\ [][NextSearchIndex]_vars

\* adding and updating documents as time passes
NextUpdate == AddOne \/ UpdateOne \/ Tick \/ Return

SpecUpdate == Init /\ [][NextUpdate]_vars

\* the embedding service alone
NextEmbed == EmbedBatch \/ Return

SpecEmbed == Init /\ [][NextEmbed]_vars

\* the machine restricted to the operations the query properties are about
NextQuery == AddOne \/ QueryOne \/ QueryBatch \/ Return

SpecQuery == Init /\ [][NextQuery]_vars

\* the machine restricted to add_one and query_one
NextQueryOne == AddOne \/ QueryOne \/ Return

SpecQueryOne == Init /\ [][NextQueryOne]_vars

-----------------------------------------------------------------------------
(* Concurrent add_one requests. The event loop may switch to another request
   at each await of add_question: after the index is ensured, after the lookup,
   after the embedding, and after the write. The calls inside
   create_hotspot_index are taken in one step: they touch the index and its
   marker, which no later step of add_question reads. *)

\* the store after a step of a concurrent request
Apply(s) ==
  /\ json' = s.json
  /\ owner' = s.owner
  /\ strs' = s.strs
  /\ index' = s.index
  /\ UNCHANGED <<now, ticks, ops, faulted, resp>>

\* the number of writes the concurrent requests have made
Written == Cardinality({p \in Callers : calls[p].wrote > 0})

\* the request arrives
AddOneAccept(p) ==
  /\ Idle
  /\ calls[p].pc = "idle"
  /\ \E g \in Groups, q \in QIds, info \in Infos :
       calls' = [calls EXCEPT ![p] = [NoCall EXCEPT !.pc = "index", !.group_id = g,
                                                     !.question_info = QuestionInfo(q, info)]]
  /\ UNCHANGED <<json, owner, strs, index, now, ticks, ops, faulted, resp>>

\* await curd.create_hotspot_index(request.group_id)
AddOneEnsureIndex(p) ==
  /\ calls[p].pc = "index"
  /\ Apply(create_hotspot_index(Store, calls[p].group_id, FALSE, {}, now).st)
  /\ calls' = [calls EXCEPT ![p].pc = "check"]

\* existing = await curd.get_hotspot_question(...)
AddOneLookup(p) ==
  /\ calls[p].pc = "check"
  /\ LET qid == calls[p].question_info.question_id
         r == get_hotspot_question(Store, calls[p].group_id, qid, {}, 1)
     IN /\ Apply(r.st)
        /\ calls' = IF Truthy(r.ret)
                    THEN [calls EXCEPT ![p].pc = "done",
                                       ![p].env = ApiResponse(400, "error", <<"exists", qid>>, None)]
                    ELSE [calls EXCEPT ![p].pc = "embed"]

\* question_vector = await self._get_text_embedding(...); store_data = {...}
AddOneEmbed(p) ==
  /\ calls[p].pc = "embed"
  /\ LET r == GetTextEmbedding(Store, calls[p].question_info.question, {})
     IN /\ Apply(r.st)
        /\ calls' = [calls EXCEPT ![p].pc = "store",
                                  ![p].store_data = StoreData(calls[p].question_info, r.ret, now)]

\* success = await curd.store_hotspot_question(...)
AddOneStore(p) ==
  /\ calls[p].pc = "store"
  /\ LET qid == calls[p].question_info.question_id
         r == store_hotspot_question(Store, qid, calls[p].store_data, calls[p].group_id, {}, 1)
     IN /\ Apply(r.st)
        /\ calls' = [calls EXCEPT
                       ![p].pc = "done",
                       ![p].wrote = IF r.ret THEN Written + 1 ELSE 0,
                       ![p].env = IF r.ret
                                  THEN ApiResponse(200, "success", <<"added">>, [question_id |-> qid])
                                  ELSE ApiResponse(500, "error", <<"store failed">>, None)]

NextRace ==
  \/ \E p \in Callers : AddOneAccept(p)
  \/ \E p \in Callers : AddOneEnsureIndex(p)
  \/ \E p \in Callers : AddOneLookup(p)
  \/ \E p \in Callers : AddOneEmbed(p)
  \/ \E p \in Callers : AddOneStore(p)
  \/ Tick

SpecRace == Init /\ [][NextRace]_vars

-----------------------------------------------------------------------------
(* Concurrent stats and delete requests. The event loop may switch to another
   request at each await of get_stats and _calculate_stats: after the cache is
   read, after the keys are enumerated, after the pipeline is executed and
   before the cache is written; and at each await of delete_hotspot_question:
   after the document is deleted. FT.INFO is taken in one step with KEYS: the
   index status it yields is read by no other request. *)

\* a get_stats call: the keys it has enumerated and the dict it has built
StatsCall(pc, g, keys, index_status, stats) ==
  [pc |-> pc, op |-> "stats", group_id |-> g, keys |-> keys,
   index_status |-> index_status, stats |-> stats]

\* a delete_hotspot_question call and, once it is over, what it returned
DeleteCall(pc, g, q, ret) ==
  [pc |-> pc, op |-> "delete_one", group_id |-> g, question_id |-> q, ret |-> ret]

\* the store has changed at most MaxCatalogOps times
Shallow == ops' <= MaxCatalogOps

\* a concurrent request has been sent
Started == \E p \in Callers : calls[p].pc # "idle"

\* no concurrent request is being served
Quiet == \A p \in Callers : calls[p].pc \in {"idle", "done"}

\* cached_stats = await client.get(cache_key): a hit ends the call
StatsCacheGet(p) ==
  /\ Idle
  /\ calls[p].pc = "idle"
  /\ \E g \in Groups :
       LET cached == strs[STATS_CACHE_KEY(g)]
       IN calls' = [calls EXCEPT ![p] = IF cached # None
                                        THEN StatsCall("done", g, {}, "", cached.val)
                                        ELSE StatsCall("keys", g, {}, "", None)]
  /\ UNCHANGED <<json, owner, strs, index, now, ticks, ops, faulted, resp>>

\* FT.INFO; keys = await client.keys(f"{group_id}*")
StatsKeys(p) ==
  /\ calls[p].pc = "keys"
  /\ LET g == calls[p].group_id
     IN calls' = [calls EXCEPT ![p] = StatsCall("read", g, KeysMatching(Store, g),
                                                IndexStatus(Store, g, {}), None)]
  /\ UNCHANGED <<json, owner, strs, index, now, ticks, ops, faulted, resp>>

\* results = await pipe.execute(); stats = {...}
StatsRead(p) ==
  /\ calls[p].pc = "read"
  /\ LET c == calls[p]
         results == [k \in c.keys |-> json[k]]
     IN calls' = [calls EXCEPT ![p] =
                    IF c.keys \cap StrKeys # {}
                    THEN StatsCall("cache_set", c.group_id, c.keys, c.index_status, ErrorStats)
                    ELSE StatsCall("cache_set", c.group_id, c.keys, c.index_status,
                                   StatsOf(c.keys, results, c.index_status, now))]
  /\ UNCHANGED <<json, owner, strs, index, now, ticks, ops, faulted, resp>>

\* if use_cache and stats: await client.setex(cache_key, CACHE_TTL, json.dumps(stats))
StatsCacheSet(p) ==
  /\ calls[p].pc = "cache_set"
  /\ strs' = [strs EXCEPT ![STATS_CACHE_KEY(calls[p].group_id)] =
                            [val |-> calls[p].stats, exp |-> now + CACHE_TTL]]
  /\ calls' = [calls EXCEPT ![p].pc = "done"]
  /\ UNCHANGED <<json, owner, index, now, ticks, ops, faulted, resp>>

\* result = await client.delete(key)
DeleteDoc(p) ==
  /\ Idle
  /\ calls[p].pc = "idle"
  /\ \E g \in Groups, q \in QIds :
       LET key == KeyOf(g, q)
       IN /\ json' = [json EXCEPT ![key] = None]
          /\ owner' = [owner EXCEPT ![key] = None]
          /\ calls' = [calls EXCEPT ![p] = IF json[key] # None
                                           THEN DeleteCall("invalidate", g, q, None)
                                           ELSE DeleteCall("done", g, q, FALSE)]
  /\ UNCHANGED <<strs, index, now, ticks, ops, faulted, resp>>

\* if result > 0: await client.delete(cache_key); return result > 0
DeleteInvalidate(p) ==
  /\ calls[p].pc = "invalidate"
  /\ strs' = [strs EXCEPT ![STATS_CACHE_KEY(calls[p].group_id)] = None]
  /\ calls' = [calls EXCEPT ![p].pc = "done", ![p].ret = TRUE]
  /\ UNCHANGED <<json, owner, index, now, ticks, ops, faulted, resp>>

\* documents are added, then stats and delete requests are served concurrently
\* and a stats request is served on its own
NextStatsRace ==
  \/ AddOne /\ ~Started /\ Shallow
  \/ \E p \in Callers : StatsCacheGet(p)
  \/ \E p \in Callers : StatsKeys(p)
  \/ \E p \in Callers : StatsRead(p)
  \/ \E p \in Callers : StatsCacheSet(p)
  \/ \E p \in Callers : DeleteDoc(p)
  \/ \E p \in Callers : DeleteInvalidate(p)
  \/ Stats /\ Quiet
  \/ Return

SpecStatsRace == Init /\ [][NextStatsRace]_vars

\* the machine restricted to the operations the index properties are about
NextIndex == AddOne \/ CreateIndex \/ Stats \/ Tick \/ Return

SpecIndex == Init /\ [][NextIndex]_vars

\* the machine restricted to the adapter's store operations
NextStore == StoreOne \/ StoreBatch \/ Return

SpecStore == Init /\ [][NextStore]_vars

\* the machine restricted to the operations that write documents
NextMutate == AddOne \/ AddBatch \/ UpdateOne \/ Return

SpecMutate == Init /\ [][NextMutate]_vars

\* every operation of the catalog, explored to MaxCatalogOps changes of the store
NextCatalog ==
  \/ AddOne /\ Shallow
  \/ AddBatch /\ Shallow
  \/ UpdateOne /\ Shallow
  \/ QueryOne /\ Shallow
  \/ QueryBatch /\ Shallow
  \/ GetOne /\ Shallow
  \/ List /\ Shallow
  \/ DeleteOne /\ Shallow
  \/ Stats /\ Shallow
  \/ Return

SpecCatalog == Init /\ [][NextCatalog]_vars


-----------------------------------------------------------------------------
(* Properties.  Unless a property says otherwise it is about an operation  *)
(* all of whose store and provider calls succeed (resp.healthy), in a      *)
(* store that earlier failures may have left in any reachable state.       *)

Requested(r, op) == r.op = op /\ r.healthy

DocFields == {"question_id", "question", "standard_reply", "related_links", "category"}

\* C1: add_one(g, q, ...) issued while a document is stored under (g, q)
\* returns an envelope with code 400, makes no embedding call, issues no
\* write and leaves every stored document as it was.
C1_DuplicateAddRejected ==
  [][(/\ Requested(resp', "add_one")
      /\ json[KeyOf(resp'.req.group_id, resp'.req.question_info.question_id)] # None)
     => (/\ resp'.env.code = 400
         /\ resp'.env.status = "error"
         /\ resp'.embeds = 0
         /\ resp'.posts = 0
         /\ resp'.writes = {}
         /\ json' = json)]_vars

C1_Witness ==
  /\ Requested(resp, "add_one")
  /\ resp.env.code = 400
  /\ json[KeyOf(resp.req.group_id, resp.req.question_info.question_id)] # None

\* C2 as claimed: after a successful add_one(g, D), get_one(g, D.question_id)
\* returns a document whose question_id, question, standard_reply,
\* related_links and category equal those of D.
C2_RoundTripAsClaimed ==
  (Requested(resp, "add_one") /\ resp.env.code = 200)
  => LET D == resp.req.question_info
         got == get_question_by_id(Store, resp.req.group_id, D.question_id, {}).env
     IN /\ got.code = 200
        /\ \A f \in DocFields : got.data[f] = D[f]

\* C2: after a successful add_one(g, D), get_one(g, D.question_id) returns a
\* document whose question_id, question, standard_reply and category equal
\* those of D, and whose related_links equal D's with a null list read back
\* as the empty list.
C2_RoundTrip ==
  (Requested(resp, "add_one") /\ resp.env.code = 200)
  => LET D == resp.req.question_info
         got == get_question_by_id(Store, resp.req.group_id, D.question_id, {}).env
     IN /\ got.code = 200
        /\ \A f \in DocFields \ {"related_links"} : got.data[f] = D[f]
        /\ got.data.related_links = (IF D.related_links = NoneSeq THEN <<>> ELSE D.related_links)

C2_Witness ==
  /\ Requested(resp, "add_one")
  /\ resp.env.code = 200
  /\ resp.req.question_info.related_links = NoneSeq
  /\ get_question_by_id(Store, resp.req.group_id, resp.req.question_info.question_id, {}).env.data.related_links = <<>>

\* the question ids of a batch that are stored in group g
Colliding(docs, g, items) ==
  {items[i].question_id : i \in {i \in DOMAIN items : docs[KeyOf(g, items[i].question_id)] # None}}

\* the question ids a message names after its text
Named(message) == {message[i] : i \in 2..Len(message)}

\* C3: add_batch(g, items) in which at least one item's question_id is stored
\* in g returns a 400 envelope whose message names every colliding id, writes
\* no document and makes no embedding call.
C3_CollidingBatchRejected ==
  [][(/\ Requested(resp', "add_batch")
      /\ Colliding(json, resp'.req.group_id, resp'.req.question_info_list) # {})
     => (/\ resp'.env.code = 400
         /\ Colliding(json, resp'.req.group_id, resp'.req.question_info_list)
              \subseteq Named(resp'.env.message)
         /\ resp'.writes = {}
         /\ json' = json
         /\ resp'.embeds = 0
         /\ resp'.posts = 0)]_vars

\* a batch of two items, both stored already, is refused naming both ids
C3_Witness ==
  /\ Requested(resp, "add_batch")
  /\ resp.env.code = 400
  /\ Len(resp.req.question_info_list) = 2
  /\ Cardinality(Named(resp.env.message)) = 2
  /\ Cardinality(StoredKeys(Store)) = 2

\* two items of the batch share a question_id
SharedIds(items) ==
  {items[i].question_id : i \in {i \in DOMAIN items : \E j \in DOMAIN items : j # i /\ items[j].question_id = items[i].question_id}}

\* C4 as claimed: add_batch(g, items) in which two items share a question_id,
\* none of them stored in g, rejects the batch: the envelope is an error
\* naming the shared id and no document is written.
C4_SharedIdBatchRejected ==
  [][(/\ Requested(resp', "add_batch")
      /\ SharedIds(resp'.req.question_info_list) # {}
      /\ Colliding(json, resp'.req.group_id, resp'.req.question_info_list) = {})
     => (/\ resp'.env.code # 200
         /\ SharedIds(resp'.req.question_info_list) \subseteq Named(resp'.env.message)
         /\ resp'.writes = {}
         /\ json' = json)]_vars

\* C5 as claimed: vector_search returns no result whose similarity_score is
\* below min_similarity, for every min_similarity (zero and negative
\* included) and every distance in [0, 2].
C5_NoneBelowMinSimilarity ==
  resp.op = "vector_search"
  => \A i \in DOMAIN resp.ret : ScoreOf(resp.ret[i]) >= resp.req.min_similarity

\* C6: vector_search returns at most k results, ordered by non-increasing
\* similarity_score, for every k, category filter and min_similarity and
\* whether or not a call to the store fails.
C6_AtMostKOrdered ==
  resp.op = "vector_search"
  => /\ Len(resp.ret) <= resp.req.limit
     /\ \A i, j \in DOMAIN resp.ret : i < j => ScoreOf(resp.ret[i]) >= ScoreOf(resp.ret[j])

C6_Witness ==
  /\ Requested(resp, "vector_search")
  /\ Len(resp.ret) = 2
  /\ ScoreOf(resp.ret[1]) > ScoreOf(resp.ret[2])

\* C7: delete_one(g, q) on a stored document returns true (the envelope of
\* a success), get_one(g, q) issued next finds no document, and g's stats
\* cache entry does not exist when delete_one returns.
C7_DeleteEvicts ==
  [][(/\ Requested(resp', "delete_one")
      /\ json[KeyOf(resp'.req.group_id, resp'.req.question_id)] # None)
     => (/\ resp'.env.code = 200
         /\ get_question_by_id(Store', resp'.req.group_id, resp'.req.question_id, {}).env.code = 404
         /\ strs'[STATS_CACHE_KEY(resp'.req.group_id)] = None)]_vars

C7_Witness ==
  /\ Requested(resp, "delete_one")
  /\ resp.env.code = 200
  /\ json[KeyOf(resp.req.group_id, resp.req.question_id)] = None
  /\ strs[STATS_CACHE_KEY(resp.req.group_id)] = None

\* the documents written for group g
DocsOf(g) == {k \in DocKeys : json[k] # None /\ owner[k] = g}

\* an operation that succeeded and changed which documents its group has
MembershipChanged ==
  \/ Requested(resp, "add_one") /\ resp.env.code = 200
  \/ Requested(resp, "add_batch") /\ resp.env.code = 200 /\ resp.env.data.success_count > 0
  \/ Requested(resp, "delete_one") /\ resp.env.code = 200
  \/ Requested(resp, "delete_by_category") /\ resp.ret > 0

\* C8 as claimed: when add_one, add_batch, delete_one or delete_by_category
\* has succeeded and changed the documents of group g, g's stats cache entry
\* is absent (so that stats(g) issued next computes its answer anew).
C8_MembershipChangeEvicts ==
  MembershipChanged => strs[STATS_CACHE_KEY(resp.req.group_id)] = None

\* C9 as claimed: stats(g) computed on a cache miss reports as
\* total_questions the number of documents stored for group g; documents of
\* other groups and string keys are not counted.
C9_TotalCountsOwnDocuments ==
  (/\ Requested(resp, "stats")
   /\ ~resp.req.cached
   /\ "total_questions" \in DOMAIN resp.env.data)
  => resp.env.data.total_questions = Cardinality(DocsOf(resp.req.group_id))

\* C10: every operation of the catalog, for every input and every failure of
\* a store or provider call, returns an envelope whose code is one of 200,
\* 400, 404, 500 and whose status is "success" exactly when the code is 200.
C10_UniformEnvelope ==
  resp.op \in HandlerOps
  => /\ DOMAIN resp.env = {"code", "status", "message", "data"}
     /\ resp.env.code \in {200, 400, 404, 500}
     /\ resp.env.status \in {"success", "error"}
     /\ resp.env.status = "success" <=> resp.env.code = 200

\* a failed store call answered with the envelope of an internal error
C10_Witness ==
  /\ resp.op \in HandlerOps
  /\ ~resp.healthy
  /\ resp.env.code = 500

\* the positions of the texts that are not empty or whitespace-only
NonBlank(texts) == {i \in DOMAIN texts : Strip(texts[i]) # <<>>}

\* the number of non-blank texts up to position i
Served(texts, i) == Cardinality({j \in NonBlank(texts) : j <= i})

\* C11 as claimed: for every list of texts and every provider outcome,
\* embed_batch returns a list as long as its input that holds the zero vector
\* at every blank text and the provider's vector for text i at every other
\* position, and the zero vector everywhere when the provider fails.
C11_EmbedBatchAsClaimed ==
  resp.op = "embed_batch"
  => LET texts == resp.req.texts
         failed == Site("embed.post", 1) \in resp.req.provider
     IN /\ Len(resp.ret) = Len(texts)
        /\ \A i \in DOMAIN texts :
             resp.ret[i] = IF i \in NonBlank(texts) /\ ~failed
                           THEN ProviderVec(Strip(texts[i])) ELSE ZeroVec

\* C11: embed_batch returns a list as long as its input that holds the zero
\* vector at every blank text; with a full response the other positions hold
\* the provider's vector for their text; with fewer vectors than requested
\* the non-blank texts receive the vectors in input order and those left
\* without one hold the zero vector; with more vectors than requested, or
\* when the provider fails, every position holds the zero vector.
C11_EmbedBatch ==
  resp.op = "embed_batch"
  => LET texts == resp.req.texts
         failed == Site("embed.post", 1) \in resp.req.provider
         short == ~failed /\ Site("embed.short", 1) \in resp.req.provider
         long == ~failed /\ ~short /\ Site("embed.long", 1) \in resp.req.provider
         vectors == IF failed \/ long THEN 0
                    ELSE IF short THEN Cardinality(NonBlank(texts)) - 1
                    ELSE Cardinality(NonBlank(texts))
     IN /\ Len(resp.ret) = Len(texts)
        /\ \A i \in DOMAIN texts :
             resp.ret[i] = IF i \in NonBlank(texts) /\ Served(texts, i) <= vectors
                           THEN ProviderVec(Strip(texts[i])) ELSE ZeroVec

\* a short response: a blank text, a served text and a text left without a vector
C11_Witness ==
  /\ resp.op = "embed_batch"
  /\ resp.req.provider = {Site("embed.short", 1)}
  /\ Len(resp.req.texts) = 3
  /\ resp.ret[1] = ZeroVec /\ 1 \notin NonBlank(resp.req.texts)
  /\ resp.ret[2] # ZeroVec
  /\ resp.ret[3] = ZeroVec /\ 3 \in NonBlank(resp.req.texts)

\* C12: embed_batch on N texts that are all empty or whitespace-only returns
\* N zero vectors and makes no call to the provider, for every N >= 0 and
\* whatever the provider would have answered.
C12_AllBlankNoCall ==
  (resp.op = "embed_batch" /\ NonBlank(resp.req.texts) = {})
  => /\ resp.ret = [i \in 1..Len(resp.req.texts) |-> ZeroVec]
     /\ resp.posts = 0

C12_Witness ==
  /\ resp.op = "embed_batch"
  /\ Len(resp.req.texts) = 2
  /\ NonBlank(resp.req.texts) = {}
  /\ resp.ret = <<ZeroVec, ZeroVec>>
  /\ resp.posts = 0

\* the fields a partial update may carry
UpdateFields == {"question", "standard_reply", "related_links", "category"}

\* C13: a successful update_one sets the fields present in the partial
\* request and updated_at and nothing else: query_vector is computed anew
\* from the new question when the request carries a question and is kept
\* otherwise; question_id, created_at and every field absent from the
\* request keep their values; the merged document is written under the key
\* it was read from.
C13_UpdateMerges ==
  [][(Requested(resp', "update_one") /\ resp'.env.code = 200)
     => LET request == resp'.req
            key == KeyOf(DEFAULT_GROUP, request.question_id)
            old == json[key]
            new == json'[key]
        IN /\ old # None /\ new # None
           /\ DOMAIN new = DOMAIN old
           /\ \A f \in UpdateFields :
                new[f] = IF f \in DOMAIN request THEN request[f] ELSE old[f]
           /\ new.question_id = old.question_id
           /\ new.created_at = old.created_at
           /\ new.query_vector = IF "question" \in DOMAIN request
                                 THEN (IF Strip(request.question) = <<>> THEN ZeroVec
                                       ELSE ProviderVec(Strip(request.question)))
                                 ELSE old.query_vector
           /\ resp'.embeds = (IF "question" \in DOMAIN request THEN 1 ELSE 0)
           /\ resp'.writes = {key}
           /\ \A k \in DocKeys \ {key} : json'[k] = json[k]]_vars

\* an update of the reply and the category of a document that has links,
\* added at an earlier time
C13_Witness ==
  /\ Requested(resp, "update_one")
  /\ resp.env.code = 200
  /\ "category" \in DOMAIN resp.req
  /\ LET doc == json[KeyOf(DEFAULT_GROUP, resp.req.question_id)]
     IN /\ doc.category = resp.req.category
        /\ doc.related_links # <<>>
        /\ doc.created_at < now

\* C14 as claimed: every stored document satisfies created_at <= updated_at
\* (after a successful update_one, updated_at is the time of that update).
C14_UpdatedNotBeforeCreated ==
  \A k \in DocKeys : json[k] # None => json[k].created_at <= json[k].updated_at

\* C15: update_one(question_id, ...) reads and writes only the key of the
\* group "default" and question_id: the documents under every other key are
\* left as they were, and when no document is stored under that key it
\* returns a 404 envelope, writes nothing and makes no embedding call, also
\* when another group holds a document with that question_id.
C15_UpdateOnlyDefaultGroup ==
  [][Requested(resp', "update_one")
     => LET key == KeyOf(DEFAULT_GROUP, resp'.req.question_id)
        IN /\ resp'.writes \subseteq {key}
           /\ \A k \in DocKeys \ {key} : json'[k] = json[k]
           /\ json[key] = None
                => /\ resp'.env.code = 404
                   /\ resp'.writes = {}
                   /\ resp'.embeds = 0
                   /\ json' = json]_vars

\* a 404 while another group holds a document with the requested question_id
C15_Witness ==
  /\ Requested(resp, "update_one")
  /\ resp.env.code = 404
  /\ \E k \in DocKeys :
       /\ json[k] # None
       /\ json[k].question_id = resp.req.question_id
       /\ owner[k] # DEFAULT_GROUP

-----------------------------------------------------------------------------
(* query_batch *)

\* the calls of query_batch that are searches
SearchCalls(queries) == {Site("ft.search", i) : i \in 1..Len(queries)}

\* C16: for every non-empty list of queries, query_batch returns exactly one
\* result block per query in input order, block i carrying query_index = i
\* (counted from 0) and query = queries[i]; when the search of one query fails,
\* the block of that query has an empty result set and an error.
C16_BlockPerQueryWithError ==
  (resp.op = "query_batch" /\ resp.req.queries # <<>>
     /\ resp.req.faults \subseteq SearchCalls(resp.req.queries))
    => /\ resp.env.code = 200
       /\ Len(resp.env.data.queries) = Len(resp.req.queries)
       /\ \A i \in 1..Len(resp.req.queries) :
            LET block == resp.env.data.queries[i]
            IN /\ block.query_index = i - 1
               /\ block.query = resp.req.queries[i]
               /\ Site("ft.search", i) \in resp.req.faults
                    => /\ block.results = <<>>
                       /\ "error" \in DOMAIN block

-----------------------------------------------------------------------------
(* query_one *)

\* the results of a query_one envelope all reach the floor, and total counts them
FilteredAndCounted(data) ==
  /\ \A i \in 1..Len(data.results) : ScoreOf(data.results[i]) >= HANDLER_MIN_SIMILARITY
  /\ data.total = Len(data.results)
  /\ data.total <= data.search_params.original_count

-----------------------------------------------------------------------------
(* the index of the group a document is written to *)

\* the group an operation writes to: update_one always writes to the default group
TargetGroup(r) == IF r.op = "update_one" THEN DEFAULT_GROUP ELSE r.req.group_id

\* C18: whenever add_one, add_batch or update_one returns a success envelope,
\* the index of its target group exists in the store.
C18_SuccessImpliesIndex ==
  ((Requested(resp, "add_one") \/ Requested(resp, "add_batch") \/ Requested(resp, "update_one"))
     /\ resp.env.code = 200)
    => TargetGroup(resp) \in index

-----------------------------------------------------------------------------
(* concurrent add_one *)

\* the callers that have written the document with key k
Writers(k) ==
  {p \in Callers : calls[p].wrote > 0
                     /\ KeyOf(calls[p].group_id, calls[p].question_info.question_id) = k}

LastWriter(k) == CHOOSE p \in Writers(k) : \A o \in Writers(k) : calls[o].wrote <= calls[p].wrote

\* two requests for the same group and question_id with different contents
SameNewQuestion ==
  /\ \A p \in Callers : calls[p].pc = "done"
  /\ calls[1].group_id = calls[2].group_id
  /\ calls[1].question_info.question_id = calls[2].question_info.question_id
  /\ calls[1].question_info # calls[2].question_info

\* C19: in every interleaving of two concurrent add_one calls, a call that
\* passed the existence check writes and returns 200, and the document stored
\* under a key is entirely the one that was written to it last, never a mix
\* of the two.
C19_LastWriteWins ==
  /\ \A k \in DocKeys :
       Writers(k) # {} => json[k] = calls[LastWriter(k)].store_data
  /\ \A p \in Callers :
       calls[p].pc = "done"
         => /\ calls[p].env.code \in {200, 400}
            /\ calls[p].env.code = 200 <=> calls[p].wrote > 0

\* both calls passed the existence check, both wrote and both returned 200
C19_Witness ==
  /\ SameNewQuestion
  /\ \A p \in Callers : calls[p].env.code = 200 /\ calls[p].wrote > 0
  /\ calls[1].store_data # calls[2].store_data
  /\ calls[1].wrote = 2
  /\ json[KeyOf(calls[1].group_id, calls[1].question_info.question_id)] = calls[1].store_data

-----------------------------------------------------------------------------
(* empty batches *)

\* C20: add_batch with no items and query_batch with no queries return a 400
\* error envelope and write nothing.
C20_EmptyBatchRejected ==
  ((Requested(resp, "add_batch") /\ resp.req.question_info_list = <<>>)
     \/ (Requested(resp, "query_batch") /\ resp.req.queries = <<>>))
    => /\ resp.env.code = 400
       /\ resp.env.status = "error"
       /\ resp.writes = {}

-----------------------------------------------------------------------------
(* add_batch: accounting *)

\* the positions of the items of an add_batch request whose write failed
FailedWrites(r) ==
  {i \in 1..Len(r.req.question_info_list) : Site("json.set", i) \in r.req.faults}

\* the question_ids of the items at the positions in S, in input order
RECURSIVE IdsAt(_, _, _)
IdsAt(items, S, i) ==
  IF i > Len(items) THEN <<>>
  ELSE (IF i \in S THEN <<items[i].question_id>> ELSE <<>>) \o IdsAt(items, S, i + 1)

\* C21: when add_batch passes the duplicate pre-check, the texts are embedded
\* in exactly one embed_batch call, every item is submitted for upsert even if
\* earlier items failed, success_count + failed_count = total_processed = the
\* number of input items, and failed_items lists exactly the items whose
\* write failed.
C21_BatchAccounting ==
  (resp.op = "add_batch" /\ resp.env.code = 200)
    => LET items == resp.req.question_info_list
           data == resp.env.data
       IN /\ resp.embeds = 1
          /\ resp.posts <= 1
          /\ resp.writes = {KeyOf(resp.req.group_id, items[i].question_id) : i \in 1..Len(items)}
          /\ data.total_processed = Len(items)
          /\ data.success_count + data.failed_count = data.total_processed
          /\ data.failed_count = Len(data.failed_items)
          /\ [i \in 1..Len(data.failed_items) |-> data.failed_items[i].question_id]
               = IdsAt(items, FailedWrites(resp), 1)
          /\ \A i \in 1..Len(items) :
               (i \notin FailedWrites(resp)
                  /\ \A j \in i + 1..Len(items) :
                       items[j].question_id = items[i].question_id => j \in FailedWrites(resp))
                 => json[KeyOf(resp.req.group_id, items[i].question_id)] # None

\* the first write of a batch of two failed and the second was made
C21_Witness ==
  /\ resp.op = "add_batch"
  /\ resp.env.code = 200
  /\ Len(resp.req.question_info_list) = 2
  /\ FailedWrites(resp) = {1}
  /\ resp.env.data.success_count = 1
  /\ resp.env.data.failed_count = 1
  /\ json[KeyOf(resp.req.group_id, resp.req.question_info_list[2].question_id)] # None

-----------------------------------------------------------------------------
(* ensure_index *)

\* the index-active marker of group g is cached
MarkerActive(g) ==
  strs[INDEX_STATUS_KEY(g)] # None /\ strs[INDEX_STATUS_KEY(g)].val = "active"

\* C22: ensure_index(g, force_recreate = false) called while g's marker is
\* cached returns true and sends no drop and no create: the index, the marker
\* and all documents are unchanged.
C22_FastPath ==
  [][(Requested(resp', "ensure_index") /\ ~resp'.req.force_recreate
        /\ MarkerActive(resp'.req.group_id))
       => /\ resp'.ret.value
          /\ resp'.ret.cmds = <<>>
          /\ index' = index
          /\ strs' = strs
          /\ json' = json]_vars

\* the fast path taken for a group that holds a document
C22_Witness ==
  /\ Requested(resp, "ensure_index")
  /\ ~resp.req.force_recreate
  /\ resp.ret.value
  /\ resp.ret.cmds = <<>>
  /\ MarkerActive(resp.req.group_id)
  /\ \E k \in DocKeys : json[k] # None /\ owner[k] = resp.req.group_id

\* ensure_index went past the marker: it sent the drop
SlowPath(r) == r.op = "ensure_index" /\ r.ret.cmds # <<>>

\* the drop is sent before the create, whatever becomes of the drop
DropThenCreate(r) ==
  /\ Len(r.ret.cmds) >= 2
  /\ r.ret.cmds[1] = "FT.DROPINDEX"
  /\ r.ret.cmds[2] = "FT.CREATE"

\* the create succeeded: the marker write was sent after it
CreateSucceeded(r) == Len(r.ret.cmds) = 3 /\ r.ret.cmds[3] = "SETEX"

\* C23 as stated: on the slow path the drop is attempted before the create and
\* a failing drop does not prevent the create; if the create succeeds the
\* active marker is stored with the TTL and true is returned; if the create
\* fails false is returned and no marker is stored by the call.
C23_SlowPathAsClaimed ==
  [][SlowPath(resp')
       => LET mk == INDEX_STATUS_KEY(resp'.req.group_id)
          IN /\ DropThenCreate(resp')
             /\ CreateSucceeded(resp')
                  => /\ resp'.ret.value
                     /\ strs'[mk] = ActiveMarker(now)
             /\ ~CreateSucceeded(resp')
                  => /\ ~resp'.ret.value
                     /\ strs'[mk] = strs[mk]]_vars

\* C23: ensure_index takes the slow path when force_recreate is set or no
\* active marker is read; the drop is attempted before the create and a
\* failing drop does not prevent the create; if the create succeeds and the
\* marker write is accepted, the active marker is stored with the TTL and
\* true is returned; if the create succeeds and the marker write fails, the
\* index exists, no marker is stored and false is returned; if the create
\* fails, false is returned and no marker is stored by the call.
C23_SlowPath ==
  [][resp'.op = "ensure_index"
       => LET g == resp'.req.group_id
              mk == INDEX_STATUS_KEY(g)
              F == resp'.req.faults
          IN /\ (resp'.req.force_recreate
                   \/ (~MarkerActive(g) /\ Site("marker.get", 1) \notin F))
                  => SlowPath(resp')
             /\ SlowPath(resp')
                  => /\ DropThenCreate(resp')
                     /\ (CreateSucceeded(resp') /\ Site("marker.setex", 1) \notin F)
                          => /\ resp'.ret.value
                             /\ g \in index'
                             /\ strs'[mk] = ActiveMarker(now)
                             /\ strs'[mk].exp = now + CACHE_TTL
                     /\ (CreateSucceeded(resp') /\ Site("marker.setex", 1) \in F)
                          => /\ ~resp'.ret.value
                             /\ g \in index'
                             /\ strs'[mk] = strs[mk]
                     /\ ~CreateSucceeded(resp')
                          => /\ ~resp'.ret.value
                             /\ strs'[mk] = strs[mk]]_vars

\* a drop that failed, followed by a create that succeeded
C23_Witness ==
  /\ SlowPath(resp)
  /\ Site("ft.dropindex", 1) \in resp.req.faults
  /\ CreateSucceeded(resp)
  /\ resp.ret.value
  /\ MarkerActive(resp.req.group_id)
  /\ resp.req.group_id \in index

\* C24: in every reachable state a present index-active marker of group g
\* implies that g's index exists, and ensure_index(g) returns true only when
\* g's index exists.
C24_MarkerImpliesIndex ==
  /\ \A g \in Groups : MarkerActive(g) => g \in index
  /\ (resp.op = "ensure_index" /\ resp.ret.value) => resp.req.group_id \in index

\* C25: ensure_index, on every path, creates, deletes or modifies no stored
\* document and no stats cache entry: it changes only the index and the
\* marker of its group, and every document get_one could read before the
\* call is read with the same content after it.
C25_IndexOnly ==
  [][resp'.op = "ensure_index"
       => LET g == resp'.req.group_id
          IN /\ json' = json
             /\ owner' = owner
             /\ resp'.writes = {}
             /\ \A h \in Groups : strs'[STATS_CACHE_KEY(h)] = strs[STATS_CACHE_KEY(h)]
             /\ \A h \in Groups \ {g} :
                  /\ strs'[INDEX_STATUS_KEY(h)] = strs[INDEX_STATUS_KEY(h)]
                  /\ h \in index' <=> h \in index
             /\ \A h \in Groups, q \in QIds :
                  get_hotspot_question(Store', h, q, {}, 1).ret
                    = get_hotspot_question(Store, h, q, {}, 1).ret]_vars

\* a forced recreation that dropped the index of a group holding a document
\* and a stats cache entry, and failed to create it again
C25_Witness ==
  /\ resp.op = "ensure_index"
  /\ resp.req.force_recreate
  /\ ~resp.ret.value
  /\ resp.req.group_id \notin index
  /\ strs[STATS_CACHE_KEY(resp.req.group_id)] # None
  /\ \E k \in DocKeys : json[k] # None /\ owner[k] = resp.req.group_id

-----------------------------------------------------------------------------
(* upsert_one *)

\* C26: upsert_one returns false and performs no write whenever the document
\* lacks any of query_vector, category, question, question_id; when all four
\* are present and the store accepts the write it returns true and the value
\* stored under the key is exactly the given document.
C26_UpsertOne ==
  [][resp'.op = "upsert_one"
       => LET data == resp'.req.data
              key == KeyOf(resp'.req.group_id, resp'.req.question_id)
          IN /\ ~resp'.ret.raised
             /\ (~IsDict(data) \/ \E f \in required_keys : f \notin DOMAIN data)
                  => /\ resp'.ret.value = FALSE
                     /\ resp'.writes = {}
                     /\ json' = json
             /\ (IsDict(data) /\ (\A f \in required_keys : f \in DOMAIN data)
                   /\ resp'.req.faults = {})
                  => /\ resp'.ret.value = TRUE
                     /\ json'[key] = data
                     /\ \A k \in DocKeys \ {key} : json'[k] = json[k]]_vars

\* a document without its category was refused, with another document stored
C26_Witness ==
  /\ resp.op = "upsert_one"
  /\ IsDict(resp.req.data)
  /\ DOMAIN resp.req.data = DOMAIN DocOf(resp.req.question_id) \ {"category"}
  /\ resp.ret.value = FALSE
  /\ json[KeyOf(resp.req.group_id, resp.req.question_id)] = None
  /\ \E k \in DocKeys : json[k] # None

-----------------------------------------------------------------------------
(* upsert_batch *)

\* the batched path of upsert_batch returned: every item is a dict and the
\* round trip of the pipeline did not fail
Batched(r) ==
  /\ r.op = "upsert_batch"
  /\ \A i \in 1..Len(r.req.questions_data) : IsDict(r.req.questions_data[i])
  /\ r.req.faults \cap {Site("pipe", 1), Site("pipe.late", 1)} = {}

\* the 0-based indices the failure details carry
FailedIndices(value) == {value.failed_items[j].index : j \in 1..Len(value.failed_items)}

\* the 0-based indices of the items that are invalid or whose write is refused
ExpectedFailures(questions_data, F) ==
  {i - 1 : i \in {i \in 1..Len(questions_data) :
                    ~WellFormed(questions_data[i]) \/ Site("json.set", i) \in F}}

\* the positions of the valid items whose write the store accepts
AcceptedItems(questions_data, F) ==
  {i \in 1..Len(questions_data) : WellFormed(questions_data[i]) /\ Site("json.set", i) \notin F}

\* every accepted item is stored, the last one written to a key being the one kept
AcceptedStored(questions_data, group_id, F) ==
  \A i \in AcceptedItems(questions_data, F) :
    (\A j \in AcceptedItems(questions_data, F) :
       questions_data[j].question_id = questions_data[i].question_id => j <= i)
      => json[KeyOf(group_id, questions_data[i].question_id)] = questions_data[i]

RoundTrip == {Site("pipe", 1), Site("pipe.late", 1)}

\* the round trip of upsert_batch failed: every item is a dict, one at least is
\* valid, and the pipeline raised
FellBack(r) ==
  /\ r.op = "upsert_batch"
  /\ \A i \in 1..Len(r.req.questions_data) : IsDict(r.req.questions_data[i])
  /\ \E i \in 1..Len(r.req.questions_data) : WellFormed(r.req.questions_data[i])
  /\ r.req.faults \cap RoundTrip # {}

\* C28: when the batched round trip of upsert_batch fails, the sequential
\* fallback submits exactly the originally-valid items and returns the
\* success_count, the failure_count and the set of failed input indices that
\* the batched path returns for the same input and the same per-item store
\* outcomes, and leaves the same documents stored; invalid items are reported
\* as failures exactly once.
C28_FallbackAgrees ==
  [][FellBack(resp')
       => LET questions_data == resp'.req.questions_data
              group_id == resp'.req.group_id
              batched == store_hotspot_questions_batch(Store, questions_data, group_id,
                                                       resp'.req.faults \ RoundTrip)
              value == resp'.ret.value
          IN /\ ~resp'.ret.raised
             /\ value.success_count = batched.ret.success_count
             /\ value.failed_count = batched.ret.failed_count
             /\ FailedIndices(value) = FailedIndices(batched.ret)
             /\ Cardinality(FailedIndices(value)) = Len(value.failed_items)
             /\ resp'.writes = {KeyOf(group_id, questions_data[i].question_id) :
                                  i \in {i \in 1..Len(questions_data) : WellFormed(questions_data[i])}}
             /\ json' = batched.st.json]_vars

\* a round trip that failed on a valid document and one without its category
C28_Witness ==
  /\ FellBack(resp)
  /\ Len(resp.req.questions_data) = 2
  /\ \E i \in 1..2 : ~WellFormed(resp.req.questions_data[i])
  /\ resp.ret.value.success_count = 1
  /\ resp.ret.value.failed_count = 1
  /\ \E k \in DocKeys : json[k] # None

\* a round trip that failed on two valid documents, the first of which the
\* store refused again in the fallback
C28_WitnessRefused ==
  /\ FellBack(resp)
  /\ Len(resp.req.questions_data) = 2
  /\ \A i \in 1..2 : WellFormed(resp.req.questions_data[i])
  /\ Site("json.set", 1) \in resp.req.faults
  /\ Site("json.set", 2) \notin resp.req.faults
  /\ resp.ret.value.success_count = 1
  /\ FailedIndices(resp.ret.value) = {0}

-----------------------------------------------------------------------------
(* the adapter's exceptions *)

\* C29: upsert_one and upsert_batch, for a store failure at any of their
\* store calls and for every shape of input item (valid, missing fields, not
\* a record), return their value and propagate no exception to their caller.
C29_NeverRaises ==
  (resp.op = "upsert_one" \/ resp.op = "upsert_batch") => ~resp.ret.raised

-----------------------------------------------------------------------------
(* delete_many_by_category *)

\* C30: after delete_many_by_category(g, c) has completed without a store
\* failure on a group whose index exists, no document of group g with
\* category c remains stored, and the returned count is the number of
\* documents removed.
C30_CategoryEmptied ==
  (Requested(resp, "delete_by_category") /\ resp.req.group_id \in index)
    => /\ Matching(Store, resp.req.group_id, resp.req.category) = {}
       /\ resp.ret = resp.req.matching

-----------------------------------------------------------------------------
(* stats *)

RECURSIVE SumOver(_, _)
SumOver(f, S) ==
  IF S = {} THEN 0
  ELSE LET x == CHOOSE x \in S : TRUE IN f[x] + SumOver(f, S \ {x})

\* the counts of the category histogram sum to total_questions
HistogramSumsToTotal(stats) ==
  "categories" \in DOMAIN stats
    => SumOver(stats.categories, DOMAIN stats.categories) = stats.total_questions

\* C31: in every stats computation each key enumerated under the group prefix
\* is counted in exactly one bucket of the category histogram, so the counts
\* of the histogram sum to total_questions, in the stats a request has
\* computed and in the stats a request has returned.
C31_HistogramSumsToTotal ==
  /\ \A p \in Callers :
       (calls[p].pc \in {"cache_set", "done"} /\ calls[p].op = "stats")
         => HistogramSumsToTotal(calls[p].stats)
  /\ resp.op = "stats" => HistogramSumsToTotal(resp.env.data)

\* C32: stats(g) that reads a decodable cached payload returns it without
\* enumerating keys and leaves the store as it is, so a second stats(g) within
\* the TTL of CACHE_TTL = 300 returns the value of the first with its
\* computation timestamp; stats(g) that finds no payload (never stored,
\* deleted, or expired after the TTL) or an undecodable one recomputes, and,
\* its store calls succeeding, stores the new value with the TTL and returns it.
C32_CacheHitOrRecompute ==
  [][resp'.op = "stats"
       => LET g == resp'.req.group_id
              cached == strs[STATS_CACHE_KEY(g)]
              F == resp'.req.faults
              hit == cached # None /\ cached.val # Undecodable
              data == resp'.env.data
          IN /\ (hit /\ Site("stats.get", 1) \notin F)
                  => /\ data = cached.val
                     /\ strs' = strs
             /\ (~hit /\ F = {})
                  => /\ "total_questions" \in DOMAIN data
                     /\ data.total_questions = Cardinality(KeysMatching(Store, g))
                     /\ data.cache_time = now
                     /\ strs'[STATS_CACHE_KEY(g)] = [val |-> data, exp |-> now + CACHE_TTL]]_vars

\* a second stats call within the TTL returns the value computed earlier,
\* although a document has been added since and although KEYS would fail
C32_Witness ==
  /\ resp.op = "stats"
  /\ resp.req.cached
  /\ resp.req.faults = {Site("keys", 1)}
  /\ "total_questions" \in DOMAIN resp.env.data
  /\ resp.env.data.cache_time < now
  /\ resp.env.data.total_questions < Cardinality(KeysMatching(Store, resp.req.group_id))

\* caller p's delete_one(g, q) has returned true
DeletedBy(p, g) ==
  /\ calls[p].pc = "done"
  /\ calls[p].op = "delete_one"
  /\ calls[p].group_id = g
  /\ calls[p].ret = TRUE

\* C33: once delete_one(g, q) has returned true, with no later mutation of g,
\* a stats(g) call that starts afterwards and meets no store failure reports
\* a total_questions that does not count q: it is at most the number of keys
\* stored under g's prefix, also when another stats(g) computation was in
\* flight while the delete ran.
C33_DeletedNotCounted ==
  [][\A p \in Callers :
       (resp'.op = "stats" /\ resp'.healthy /\ DeletedBy(p, resp'.req.group_id)
          /\ "total_questions" \in DOMAIN resp'.env.data)
         => resp'.env.data.total_questions
              <= Cardinality(KeysMatching(Store, resp'.req.group_id))]_vars

\* C34: a stats result that carries an error is never stored in the stats
\* cache, and a stats(g) call that meets no store failure returns statistics,
\* not an error object.
C34_ErrorNotCached ==
  /\ \A g \in Groups :
       strs[STATS_CACHE_KEY(g)] # None => strs[STATS_CACHE_KEY(g)].val # ErrorStats
  /\ Requested(resp, "stats") => resp.env.data # ErrorStats

-----------------------------------------------------------------------------
(* vector_search *)

\* C35: vector_search returns a sequence and raises nothing, and when it
\* meets no store failure the group's index exists after the call, whatever
\* the state of the index-active marker.
C35_IndexExistsAfterSearch ==
  Requested(resp, "vector_search") => resp.req.group_id \in index

-----------------------------------------------------------------------------
(* tenant isolation *)

\* the pair a point operation was called with
CalledKey(r) ==
  KeyOf(r.req.group_id,
        IF r.op = "add_one" THEN r.req.question_info.question_id ELSE r.req.question_id)

\* C36: a document added under one (group_id, question_id) pair is not
\* returned by get_one, does not make add_one reject a duplicate and is not
\* removed by delete_one when these are called with another pair: the document
\* found under the key of the pair they are called with was stored under
\* that pair's group.
C36_PointIsolation ==
  [][(/\ resp'.healthy
      /\ \/ resp'.op = "get_one" /\ resp'.env.code = 200
         \/ resp'.op = "add_one" /\ resp'.env.code = 400
         \/ resp'.op = "delete_one" /\ resp'.env.code = 200)
       => owner[CalledKey(resp')] = resp'.req.group_id]_vars

====
